---------------------------- MODULE Spec2Model ----------------------------
(***************************************************************************)
(* PcAutoAgent: the action loop (VLMAgent.run_task), the tool-call parser  *)
(* and executor (ToolUtils) and the presentation layer's pause/continue    *)
(* plumbing (MinimalGUI), specified by Spec, by SpecFair with the fairness *)
(* of its threads and of the user, and by SpecLoopFair with that of the    *)
(* worker thread alone; and, each on its own, the parser (SpecParse),      *)
(* its argument loop (SpecArgs), the pointer-action handlers (SpecPointer) *)
(* and their moving path (SpecMove), the coordinate converter (SpecCoord,  *)
(* SpecRelative), the adapter adjustment (SpecAdjust) and the start of the *)
(* worker threads (SpecWorkers).                                           *)
(*                                                                         *)
(* Text is modelled as a sequence of tokens, each token a string holding   *)
(* the characters it stands for.  The module is ASCII: the Chinese string  *)
(* literals of the source are written in pinyin between square brackets,   *)
(* e.g. "[yanzhengma]" for the three characters of "verification code";    *)
(* such a token stands for non-ASCII characters, so it holds no character  *)
(* of an identifier and none of the marker.                                *)
(***************************************************************************)
EXTENDS Integers, Sequences, FiniteSets, TLC

(***************************************************************************)
(* Bounds of the model.                                                    *)
(***************************************************************************)
\* longest text handed to the parser in SpecParse
MaxTextLen == 4
\* largest max_steps argument of run_task
MaxSteps == 2
\* longest argument value handed to the argument parser in SpecArgs
MaxValueLen == 4
\* largest clicks argument of mouse_click in SpecPointer
MaxClicks == 2
\* largest width and height of the screen in SpecCoord
MaxDim == 16
\* proportions in SpecCoord are the multiples n/PropDen
PropDen == 3
\* most calls of execute_task in SpecWorkers
MaxSubmits == 3
\* longest rule list of an adapter in SpecAdjust
MaxRules == 2
\* largest distance, on an axis, between the target and where the pointer is
\* found after the final move in SpecMove
MaxError == 5

(***************************************************************************)
(* Tokens.                                                                 *)
(***************************************************************************)
MARK == "<|tool_call|>"
NL == "\n"
SP == " "
DOT == "."

\* name(args) spans a response can hold.  Each row: the identifier in front
\* of the parenthesis, the argument map written in the span (the one
\* arg_pattern reads from it), and whether the span holds no character of the
\* class [<|tool_ca>].
CallTable ==
  [ c \in { "mouse_click(x=0.5, y=0.5)",
            "wait(seconds=1)",
            "pause_task(reason=\"login\")",
            "complete_task(message=\"done\")",
            "clear_input(x=0.5, y=0.5)",
            "mouse_click(z=1)",
            "press(k=1)",
            "type_text(text=\"f(x)\")",
            "await(seconds=1)" } |->
      CASE c = "mouse_click(x=0.5, y=0.5)" ->
             [name |-> "mouse_click", arguments |-> [x |-> "0.5", y |-> "0.5"], p1safe |-> FALSE]
        [] c = "wait(seconds=1)" ->
             [name |-> "wait", arguments |-> [seconds |-> "1"], p1safe |-> FALSE]
        [] c = "pause_task(reason=\"login\")" ->
             [name |-> "pause_task", arguments |-> [reason |-> "login"], p1safe |-> FALSE]
        [] c = "complete_task(message=\"done\")" ->
             [name |-> "complete_task", arguments |-> [message |-> "done"], p1safe |-> FALSE]
        [] c = "clear_input(x=0.5, y=0.5)" ->
             [name |-> "clear_input", arguments |-> [x |-> "0.5", y |-> "0.5"], p1safe |-> FALSE]
        [] c = "mouse_click(z=1)" ->
             [name |-> "mouse_click", arguments |-> [z |-> "1"], p1safe |-> FALSE]
        [] c = "press(k=1)" ->
             [name |-> "press", arguments |-> [k |-> "1"], p1safe |-> TRUE]
        [] c = "type_text(text=\"f(x)\")" ->
             [name |-> "type_text", arguments |-> [text |-> "f(x)"], p1safe |-> FALSE]
        [] c = "await(seconds=1)" ->
             [name |-> "await", arguments |-> [seconds |-> "1"], p1safe |-> FALSE] ]

CallTokens == DOMAIN CallTable

\* spans with a ")" inside a quoted value: \([^)]*\) ends at that ")", in
\* front of the closing quote
Unclosed == { "type_text(text=\"f(x)\")" }

\* prose of a response: Chinese phrases, and the patterns each contains
\*   [hao]                 "good": no pattern
\*   [qingshuru yanzhengma] "please enter the verification code"
\*   [denglu]              "log in"
\*   [qingshaohou]         "please wait a moment"
ProseTokens == {"[hao]", "[qingshuru yanzhengma]", "[denglu]", "[qingshaohou]"}

IsWs(tok) == tok \in {SP, NL}
\* identifier, "(", [^)]*, ")" matches the token from its first character to
\* its last
IsCall(tok) == tok \in CallTokens /\ tok \notin Unclosed

\* pattern1's class [^<\|tool_call\|>] excludes the characters < | t o l _ c a >
P1Safe(tok) ==
  IF tok \in CallTokens THEN CallTable[tok].p1safe
  ELSE tok # MARK

\* pattern3's alternation of tool names
BareNames ==
  {"mouse_click", "type_text", "scroll_window", "close_window", "clear_input",
   "wait", "press_hotkey", "pause_task", "complete_task"}

(***************************************************************************)
(* ToolUtils.parse_tool_calls                                              *)
(***************************************************************************)
\* index of the first MARK at or after i, 0 when there is none
RECURSIVE NextMark(_, _)
NextMark(text, i) ==
  IF i > Len(text) THEN 0
  ELSE IF text[i] = MARK THEN i
  ELSE NextMark(text, i + 1)

\* re.findall(pattern1, text, re.DOTALL): marker, content without a character
\* of the class, marker; the scan resumes after the closing marker
RECURSIVE Matches1From(_, _)
Matches1From(text, i) ==
  IF i > Len(text) THEN << >>
  ELSE IF text[i] # MARK THEN Matches1From(text, i + 1)
  ELSE LET j == NextMark(text, i + 1) IN
       IF j # 0 /\ \A k \in (i + 1)..(j - 1) : P1Safe(text[k])
       THEN << SubSeq(text, i + 1, j - 1) >> \o Matches1From(text, j + 1)
       ELSE Matches1From(text, i + 1)

Matches1(text) == Matches1From(text, 1)

\* index of the marker that follows position i after optional whitespace, or 0
RECURSIVE MarkAfterWs(_, _)
MarkAfterWs(text, i) ==
  IF i > Len(text) THEN 0
  ELSE IF text[i] = MARK THEN i
  ELSE IF IsWs(text[i]) THEN MarkAfterWs(text, i + 1)
  ELSE 0

\* re.findall(pattern2, text): name(args), optional whitespace, marker;
\* group 1 is the span without the whitespace
RECURSIVE Matches2From(_, _)
Matches2From(text, i) ==
  IF i > Len(text) THEN << >>
  ELSE LET j == MarkAfterWs(text, i + 1) IN
       IF IsCall(text[i]) /\ j # 0
       THEN << << text[i] >> >> \o Matches2From(text, j + 1)
       ELSE Matches2From(text, i + 1)

Matches2(text) == Matches2From(text, 1)

\* the lookahead (?=\s*\n|$|\.) at the end of token i
RECURSIVE NewlineAfterWs(_, _)
NewlineAfterWs(text, i) ==
  IF i > Len(text) THEN FALSE
  ELSE IF text[i] = NL THEN TRUE
  ELSE IF IsWs(text[i]) THEN NewlineAfterWs(text, i + 1)
  ELSE FALSE

BareLookahead(text, i) ==
  \/ i = Len(text)
  \/ (i < Len(text) /\ text[i + 1] = DOT)
  \/ NewlineAfterWs(text, i + 1)

\* what pattern3's alternation and \s*\([^)]*\) match inside a token: the
\* token itself when its identifier is one of the names, the rest of the
\* token from the name on when the identifier only ends with one (nothing
\* anchors the alternation on the left), "" when there is no such match
BareSpan(tok) ==
  IF ~IsCall(tok) THEN ""
  ELSE IF CallTable[tok].name \in BareNames THEN tok
  ELSE IF tok = "await(seconds=1)" THEN "wait(seconds=1)"
  ELSE ""

\* re.findall(full_pattern3, text), element 0 of each match
RECURSIVE Matches3From(_, _)
Matches3From(text, i) ==
  IF i > Len(text) THEN << >>
  ELSE IF BareSpan(text[i]) # "" /\ BareLookahead(text, i)
       THEN << << BareSpan(text[i]) >> >> \o Matches3From(text, i + 1)
       ELSE Matches3From(text, i + 1)

Matches3(text) == Matches3From(text, 1)

\* the merge loop over [matches1, matches2, matches3] with seen_matches
RECURSIVE Dedup(_, _)
Dedup(ms, seen) ==
  IF ms = << >> THEN << >>
  ELSE IF Head(ms) \in seen THEN Dedup(Tail(ms), seen)
  ELSE << Head(ms) >> \o Dedup(Tail(ms), seen \cup {Head(ms)})

AllMatches(text) == Dedup(Matches1(text) \o Matches2(text) \o Matches3(text), {})

RECURSIVE StripLeft(_)
StripLeft(m) == IF m # << >> /\ IsWs(Head(m)) THEN StripLeft(Tail(m)) ELSE m

RECURSIVE StripRight(_)
StripRight(m) ==
  IF m # << >> /\ IsWs(m[Len(m)]) THEN StripRight(SubSeq(m, 1, Len(m) - 1)) ELSE m

\* arg_pattern found over everything between the first "(" and the last ")":
\* a later key=value overwrites an earlier one of the same key
RECURSIVE ArgsOfSpan(_)
ArgsOfSpan(s) ==
  IF s = << >> THEN << >>
  ELSE LET rest == ArgsOfSpan(SubSeq(s, 1, Len(s) - 1))
           last == s[Len(s)]
       IN IF IsCall(last) THEN CallTable[last].arguments @@ rest ELSE rest

\* function_pattern, ^\s*(name)\s*\((.*?)\)\s*$ without DOTALL, on one match
FunctionMatches(m) ==
  LET s == StripRight(StripLeft(m)) IN
    /\ s # << >>
    /\ IsCall(s[1])
    /\ IsCall(s[Len(s)])
    /\ \A k \in 1..Len(s) : s[k] # NL

ToolCallOf(m) ==
  LET s == StripRight(StripLeft(m)) IN
    [name |-> CallTable[s[1]].name, arguments |-> ArgsOfSpan(s)]

RECURSIVE CallsOfMatches(_)
CallsOfMatches(ms) ==
  IF ms = << >> THEN << >>
  ELSE IF FunctionMatches(Head(ms))
       THEN << ToolCallOf(Head(ms)) >> \o CallsOfMatches(Tail(ms))
       ELSE CallsOfMatches(Tail(ms))

parse_tool_calls(text) == CallsOfMatches(AllMatches(text))

(***************************************************************************)
(* parse_tool_calls: the argument loop, on the argument string k=<value>.  *)
(* A value is a sequence of characters.                                    *)
(***************************************************************************)
QUOTE == "\""
MINUS == "-"

\* \d and \w among the characters of ValueAlphabet
DigitChars == {"5"}
WordChars == {"5", "a"}

\* length of the run of characters of the class that starts at position i
RECURSIVE RunLen(_, _, _)
RunLen(v, i, class) ==
  IF i > Len(v) \/ i < 1 THEN 0
  ELSE IF v[i] \in class THEN 1 + RunLen(v, i + 1, class)
  ELSE 0

\* index of the first QUOTE at or after i, 0 when there is none
RECURSIVE NextQuote(_, _)
NextQuote(v, i) ==
  IF i > Len(v) THEN 0
  ELSE IF v[i] = QUOTE THEN i
  ELSE NextQuote(v, i + 1)

\* ("[^"]*"|\d+\.\d+|\d+|\w+) tried at the first character of the value: the
\* length of the text the first alternative that matches takes, 0 when none
\* matches
ValueMatchLen(v) ==
  LET n == RunLen(v, 1, DigitChars)
      m == RunLen(v, n + 2, DigitChars)
  IN IF v # << >> /\ v[1] = QUOTE /\ NextQuote(v, 2) # 0 THEN NextQuote(v, 2)
     ELSE IF n >= 1 /\ n + 1 <= Len(v) /\ v[n + 1] = DOT /\ m >= 1 THEN n + 1 + m
     ELSE IF n >= 1 THEN n
     ELSE RunLen(v, 1, WordChars)

\* the branches on arg_value: quotes stripped, float(), int(), or the text
\* left as it is
ConvertValue(val) ==
  IF val[1] = QUOTE /\ val[Len(val)] = QUOTE
  THEN [present |-> TRUE, type |-> "str", text |-> SubSeq(val, 2, Len(val) - 1)]
  ELSE IF \E k \in 1..Len(val) : val[k] = DOT
  THEN [present |-> TRUE, type |-> "float", text |-> val]
  ELSE IF \A k \in 1..Len(val) : val[k] \in DigitChars
  THEN [present |-> TRUE, type |-> "int", text |-> val]
  ELSE [present |-> TRUE, type |-> "str", text |-> val]

\* args["k"] after the loop over re.findall(arg_pattern, "k=" + v); the key
\* is absent when the pattern does not match behind "k="
parse_arg(v) ==
  IF ValueMatchLen(v) = 0
  THEN [present |-> FALSE, type |-> "", text |-> << >>]
  ELSE ConvertValue(SubSeq(v, 1, ValueMatchLen(v)))

(***************************************************************************)
(* ToolUtils.execute_tool_calls                                            *)
(***************************************************************************)
\* the keys of self.tools
tools ==
  {"mouse_click", "double_click", "right_click", "mouse_hover", "mouse_down",
   "mouse_up", "type_text", "scroll_window", "close_window", "press_windows_key",
   "press_enter", "delete_text", "mouse_drag", "wait", "open_terminal",
   "press_hotkey", "pause_task", "complete_task"}

\* parameters of the handlers the model's calls name: those a call may pass
\* and those it must pass (no default)
Accepted(name) ==
  CASE name = "mouse_click" -> {"x", "y", "button", "clicks", "adapter_id", "move_first"}
    [] name = "wait" -> {"seconds"}
    [] name = "pause_task" -> {"reason", "adapter_id"}
    [] name = "complete_task" -> {"message", "adapter_id"}
    [] OTHER -> {}

Required(name) ==
  CASE name = "mouse_click" -> {"x", "y"}
    [] name = "wait" -> {"seconds"}
    [] OTHER -> {}

\* self.tools[func_name](**args) raises TypeError before the handler runs
BadArguments(call) ==
  \/ ~(DOMAIN call.arguments \subseteq Accepted(call.name))
  \/ ~(Required(call.name) \subseteq DOMAIN call.arguments)

\* what one call can come to: "unknown" (name not in self.tools), "raise"
\* (TypeError on the arguments, or the handler raises: mouse_click's backup
\* click is outside any try), "ok" (the handler returns its result string)
Outcomes(call) ==
  IF call.name \notin tools THEN {"unknown"}
  ELSE IF BadArguments(call) THEN {"raise"}
  ELSE IF call.name = "mouse_click" THEN {"ok", "raise"}
  ELSE {"ok"}

OutcomeVectors(calls) ==
  { oc \in [1..Len(calls) -> {"ok", "raise", "unknown"}] :
      \A i \in 1..Len(calls) : oc[i] \in Outcomes(calls[i]) }

\* the entry appended to results for one call
ResultEntry(call, outcome) ==
  CASE outcome = "ok" -> [kind |-> "result", name |-> call.name]
    [] outcome = "raise" -> [kind |-> "error", name |-> call.name]
    [] OTHER -> [kind |-> "unknown", name |-> call.name]

\* the for loop of execute_tool_calls from call i on: the entries appended and
\* the indices of the calls whose handler was called
RECURSIVE ExecuteFrom(_, _, _)
ExecuteFrom(calls, oc, i) ==
  IF i > Len(calls) THEN [results |-> << >>, invoked |-> << >>]
  ELSE LET rest == ExecuteFrom(calls, oc, i + 1) IN
       [results |-> << ResultEntry(calls[i], oc[i]) >> \o rest.results,
        invoked |-> IF calls[i].name \in tools THEN << i >> \o rest.invoked
                    ELSE rest.invoked]

\* (mutant) no try/except around the handler: the first raising call ends the
\* loop, and the entries collected so far are all there is
RECURSIVE ExecuteUntilRaise(_, _, _)
ExecuteUntilRaise(calls, oc, i) ==
  IF i > Len(calls) THEN [results |-> << >>, invoked |-> << >>]
  ELSE IF oc[i] = "raise" THEN [results |-> << >>, invoked |-> << i >>]
  ELSE LET rest == ExecuteUntilRaise(calls, oc, i + 1) IN
       [results |-> << ResultEntry(calls[i], oc[i]) >> \o rest.results,
        invoked |-> IF calls[i].name \in tools THEN << i >> \o rest.invoked
                    ELSE rest.invoked]

execute_tool_calls_unguarded(calls, oc) == ExecuteUntilRaise(calls, oc, 1)

execute_tool_calls(calls, oc) == ExecuteFrom(calls, oc, 1)

(***************************************************************************)
(* VLMAgent helpers.                                                       *)
(***************************************************************************)
\* manual_intervention_patterns, in list order, restricted to the patterns the
\* model's tokens can hold: "[denglu]", "login", "[yanzhengma]", "[yanzheng]"
manual_intervention_patterns == << "[denglu]", "login", "[yanzhengma]", "[yanzheng]" >>

\* the patterns and phrases a token holds as a substring (lower-cased)
Holds(tok) ==
  CASE tok = "[qingshuru yanzhengma]" -> {"[yanzhengma]", "[yanzheng]", "[qingshuru]"}
    [] tok = "[denglu]" -> {"[denglu]"}
    [] tok = "[qingshaohou]" -> {"[qingshaohou]"}
    [] tok = "pause_task(reason=\"login\")" -> {"login"}
    [] OTHER -> {}

TextHolds(text) == UNION { Holds(text[k]) : k \in 1..Len(text) }

\* (mutant) the last pattern of the list the response holds
detect_last_pattern(text) ==
  LET hit == { n \in 1..Len(manual_intervention_patterns) :
                 manual_intervention_patterns[n] \in TextHolds(text) }
  IN IF hit = {} THEN ""
     ELSE manual_intervention_patterns[CHOOSE n \in hit : \A m \in hit : n >= m]

\* detect_manual_intervention_required: the first pattern of the list the
\* response holds, "" for (False, None)
detect_manual_intervention_required(text) ==
  LET hit == { n \in 1..Len(manual_intervention_patterns) :
                 manual_intervention_patterns[n] \in TextHolds(text) }
  IN IF hit = {} THEN ""
     ELSE manual_intervention_patterns[CHOOSE n \in hit : \A m \in hit : n <= m]

\* the keyword list of need_user_input
UserInputKeywords ==
  {"[xuyao yonghu]", "[qing yonghu]", "[yonghu bangmang]", "[yonghu caozuo]",
   "[qingshuru]", "[qingxuanze]", "[dengdai]", "[qingshaohou]"}

need_user_input(text) == TextHolds(text) \cap UserInputKeywords # {}

\* (mutant) the bound checked one step late
LoopConditionOffByOne(s, n) == s <= n

\* while step < max_steps
LoopCondition(s, n) == s < n

\* (mutant) a wait that the flag does not end
WaitNeverReturns(flag) == FALSE

\* (mutant) a wait that returns whether or not the flag is set
WaitReturnsUnset(flag) == TRUE

\* threading.Event.wait(): returns once the flag is set
WaitReturns(flag) == flag

\* for message in reversed(self.messages): the last assistant reply
RECURSIVE LastAssistant(_)
LastAssistant(msgs) ==
  IF msgs = << >> THEN [kind |-> "no_reply", message |-> << >>]
  ELSE IF msgs[Len(msgs)].role = "assistant"
       THEN [kind |-> "last_reply", message |-> msgs[Len(msgs)].content]
       ELSE LastAssistant(SubSeq(msgs, 1, Len(msgs) - 1))

\* the responses the model draws from
Responses ==
  { << "[hao]", "mouse_click(x=0.5, y=0.5)", MARK >>,
    << "pause_task(reason=\"login\")", MARK >>,
    << "pause_task(reason=\"login\")", MARK, "mouse_click(x=0.5, y=0.5)", MARK >>,
    << "complete_task(message=\"done\")", MARK, "mouse_click(x=0.5, y=0.5)", MARK >>,
    << "mouse_click(z=1)", MARK, "clear_input(x=0.5, y=0.5)", NL, "wait(seconds=1)" >>,
    << "[denglu]", "mouse_click(x=0.5, y=0.5)", MARK >>,
    << "[qingshuru yanzhengma]" >>,
    << "[qingshaohou]" >>,
    << "[hao]" >> }

(***************************************************************************)
(* State.                                                                  *)
(***************************************************************************)
VARIABLES
  \* the parser alone (SpecParse)
  p_pc, p_text, p_calls,
  \* the worker thread: task_worker and, inside it, run_task
  pc,                   \* where the thread is
  step, max_steps,      \* run_task's counter and argument
  messages,             \* self.messages
  response_text,        \* the last response
  tool_calls,           \* the batch parsed from it
  tool_result,          \* the executor's entries for the batch
  scan_i,               \* index of "for call in tool_calls"
  manual_intervention_detected, is_paused, pause_reason,
  result,               \* what run_task returned
  \* shared with the presentation layer
  pause_event,          \* the flag of the threading.Event
  status_queue, task_queue, is_running,
  \* the presentation layer (Tk main loop)
  continue_button,      \* TRUE: state NORMAL
  pause_frame,          \* TRUE: the pause frame is packed, the main frame is not
  after_show,           \* pending root.after(0, show_pause_interface) callbacks
  submitted,            \* main() has called execute_task
  gui,                  \* "running", "quitting" (root.quit scheduled), "quit"
  \* history
  model_calls,          \* chat.completions.create calls issued by this run_task
  exec_outcomes,        \* what each call of the batch came to
  invoked,              \* indices of the batch's calls whose handler was called
  fresh,                \* continue_task set the event since the current pause began
  gate_reason,          \* reason of the pause notified since the last response
  blocks,               \* Gate waits begun since the last response
  published,            \* the events put on status_queue so far, drained or not
  resumes,              \* Gate waits returned in this run_task
  loop_error,           \* the exception that ended run_task, "" when none
  screen_changed,       \* a tool ran or a pause ended since the last capture
  resume_pending,       \* a pause ended and no resume message was appended since
  \* a pointer-action handler alone (SpecPointer)
  h_pc,                 \* where the handler is
  h_call,               \* its arguments and the pointer's distance from the target
  h_events,             \* input events delivered to the OS
  h_bound,              \* x_error and y_error are assigned
  \* the coordinate converter alone (SpecCoord)
  c_pc, c_in, c_out,
  \* execute_task and the worker threads alone (SpecWorkers)
  t_pc,                 \* where each thread is
  t_queue,              \* self.task_queue
  t_running,            \* self.is_running
  t_calls               \* calls of execute_task made

parseVars == << p_pc, p_text, p_calls >>

handlerVars == << h_pc, h_call, h_events, h_bound >>

coordVars == << c_pc, c_in, c_out >>

workerVars == << t_pc, t_queue, t_running, t_calls >>

\* the variables of the units checked on their own
unitVars == << parseVars, handlerVars, coordVars, workerVars >>

agentVars ==
  << step, max_steps, messages, response_text, tool_calls, tool_result, scan_i,
     manual_intervention_detected, is_paused, pause_reason, result >>

guiVars == << continue_button, pause_frame, after_show, submitted, gui >>

histVars == << model_calls, exec_outcomes, invoked, gate_reason, blocks, resumes, loop_error >>

shotVars == << screen_changed, resume_pending >>

vars ==
  << p_pc, p_text, p_calls, pc, step, max_steps, messages, response_text,
     tool_calls, tool_result, scan_i, manual_intervention_detected, is_paused,
     pause_reason, result, pause_event, status_queue, published, task_queue, is_running,
     continue_button, pause_frame, after_show, submitted, gui, model_calls,
     exec_outcomes, invoked, fresh, gate_reason, blocks, resumes, loop_error,
     screen_changed, resume_pending,
     h_pc, h_call, h_events, h_bound, c_pc, c_in, c_out,
     t_pc, t_queue, t_running, t_calls >>

mainVars ==
  << pc, step, max_steps, messages, response_text,
     tool_calls, tool_result, scan_i, manual_intervention_detected, is_paused,
     pause_reason, result, pause_event, status_queue, published, task_queue, is_running,
     continue_button, pause_frame, after_show, submitted, gui, model_calls,
     exec_outcomes, invoked, fresh, gate_reason, blocks, resumes, loop_error,
     screen_changed, resume_pending >>

ParseIdle ==
  /\ p_pc = "idle"
  /\ p_text = << >>
  /\ p_calls = << >>

HandlerIdle ==
  /\ h_pc = "idle"
  /\ h_call = << >>
  /\ h_events = << >>
  /\ h_bound = FALSE

CoordIdle ==
  /\ c_pc = "idle"
  /\ c_in = << >>
  /\ c_out = << >>

WorkersIdle ==
  /\ t_pc = << >>
  /\ t_queue = << >>
  /\ t_running = FALSE
  /\ t_calls = 0

\* MinimalGUI.__init__ and create_minimal_widgets; VLMAgent.__init__
InitMain ==
  /\ pc = "none"
  /\ step = 0
  /\ max_steps = 0
  /\ messages = << >>
  /\ response_text = << >>
  /\ tool_calls = << >>
  /\ tool_result = << >>
  /\ scan_i = 0
  /\ manual_intervention_detected = FALSE
  /\ is_paused = FALSE
  /\ pause_reason = ""
  /\ result = [kind |-> "none", message |-> << >>]
  /\ pause_event = FALSE
  /\ status_queue = << >>
  /\ published = << >>
  /\ task_queue = << >>
  /\ is_running = FALSE
  /\ continue_button = FALSE
  /\ pause_frame = FALSE
  /\ after_show = 0
  /\ submitted = FALSE
  /\ gui = "running"
  /\ model_calls = 0
  /\ exec_outcomes = << >>
  /\ invoked = << >>
  /\ fresh = FALSE
  /\ gate_reason = ""
  /\ blocks = 0
  /\ resumes = 0
  /\ loop_error = ""
  /\ screen_changed = FALSE
  /\ resume_pending = FALSE

Init == ParseIdle /\ HandlerIdle /\ CoordIdle /\ WorkersIdle /\ InitMain

(***************************************************************************)
(* Messages and events.                                                    *)
(***************************************************************************)
Msg(role, kind, content) == [role |-> role, kind |-> kind, content |-> content]

\* step_update_callback("task_paused", task_id, reason), run on the worker
\* thread: status_queue.put and root.after(0, show_pause_interface)
PausedEvent(reason) == [type |-> "task_paused", task |-> 1, message |-> reason]

CompleteEvent(status) == [type |-> "task_complete", task |-> 1, message |-> status]

\* a pause begins: the notification is published and the thread goes to wait
NotifyPaused(reason, waitPc) ==
  /\ status_queue' = Append(status_queue, PausedEvent(reason))
  /\ published' = Append(published, PausedEvent(reason))
  /\ after_show' = after_show + 1
  /\ pc' = waitPc
  /\ fresh' = FALSE
  /\ gate_reason' = reason
  /\ blocks' = blocks + 1

\* the outer "except Exception" of the loop body: return the fixed string
FailureResult == [kind |-> "failed", message |-> "[renwu zhixing shibai, keneng shi queshao edu]"]

\* return f"{prefix}{message}" of the complete_task branch
CompletedResult(call) ==
  [kind |-> "completed",
   message |-> IF "message" \in DOMAIN call.arguments THEN call.arguments.message
               ELSE "[renwu yi wancheng]"]

PauseReasonOf(call) ==
  IF "reason" \in DOMAIN call.arguments THEN call.arguments.reason
  ELSE "[yonghu shoudong caozuo]"

Alive == gui # "quit"

(***************************************************************************)
(* MinimalGUI.execute_task and task_worker.                                *)
(***************************************************************************)
\* main(): root.after(1000, execute_task(args.task)), once
ExecuteTask ==
  /\ Alive /\ ~submitted
  /\ submitted' = TRUE
  /\ task_queue' = Append(task_queue, 1)
  /\ pc' = IF ~is_running THEN "w_start" ELSE pc
  /\ UNCHANGED << agentVars, histVars, fresh, pause_event, status_queue, published, is_running,
                  continue_button, pause_frame, after_show, gui, shotVars, unitVars >>

WorkerStart ==
  /\ Alive /\ pc = "w_start"
  /\ is_running' = TRUE
  /\ pc' = "w_get"
  /\ UNCHANGED << agentVars, histVars, fresh, pause_event, status_queue, published, task_queue,
                  guiVars, shotVars, unitVars >>

\* task_queue.get(timeout=0.1) found a task; the agent is created and wired,
\* or its construction raises and the task is published as failed
WorkerTake ==
  /\ Alive /\ pc = "w_get" /\ task_queue # << >>
  /\ task_queue' = Tail(task_queue)
  /\ \E ok \in BOOLEAN :
       IF ok
       THEN /\ is_paused' = FALSE
            /\ pc' = "run_start"
            /\ UNCHANGED << status_queue, published >>
       ELSE /\ status_queue' = Append(status_queue, CompleteEvent("[shibai]: agent"))
            /\ published' = Append(published, CompleteEvent("[shibai]: agent"))
            /\ pc' = "w_get"
            /\ UNCHANGED is_paused
  /\ UNCHANGED << step, max_steps, messages, response_text, tool_calls, tool_result,
                  scan_i, manual_intervention_detected, pause_reason, result,
                  histVars, fresh, pause_event, is_running, guiVars, shotVars, unitVars >>

\* queue.Empty: break
WorkerEmpty ==
  /\ Alive /\ pc = "w_get" /\ task_queue = << >>
  /\ pc' = "w_break"
  /\ UNCHANGED << agentVars, histVars, fresh, pause_event, status_queue, published, task_queue,
                  is_running, guiVars, shotVars, unitVars >>

WorkerExit ==
  /\ Alive /\ pc = "w_break"
  /\ is_running' = FALSE
  /\ pc' = "w_exit"
  /\ UNCHANGED << agentVars, histVars, fresh, pause_event, status_queue, published, task_queue,
                  guiVars, shotVars, unitVars >>

\* run_task returned: status_queue.put(("task_complete", task_id, "[wancheng]"))
WorkerPublish ==
  /\ Alive /\ pc = "returned"
  /\ status_queue' = Append(status_queue, CompleteEvent("[wancheng]"))
  /\ published' = Append(published, CompleteEvent("[wancheng]"))
  /\ pc' = "w_get"
  /\ UNCHANGED << agentVars, histVars, fresh, pause_event, task_queue, is_running,
                  guiVars, shotVars, unitVars >>

(***************************************************************************)
(* VLMAgent.run_task.                                                      *)
(***************************************************************************)
\* up to "step = 0": the transcript is reset to the system prompt
RunTaskStart ==
  /\ Alive /\ pc = "run_start"
  /\ screen_changed' = FALSE
  /\ resume_pending' = FALSE
  /\ \E n \in 0..MaxSteps : max_steps' = n
  /\ step' = 0
  /\ messages' = << Msg("system", "prompt", << >>) >>
  /\ model_calls' = 0
  /\ resumes' = 0
  /\ loop_error' = ""
  /\ gate_reason' = ""
  /\ blocks' = 0
  /\ pc' = "loop_head"
  /\ UNCHANGED << response_text, tool_calls, tool_result, scan_i,
                  manual_intervention_detected, is_paused, pause_reason, result,
                  exec_outcomes, invoked, fresh, pause_event, status_queue, published,
                  task_queue, is_running, guiVars, unitVars >>

\* while step < max_steps: step += 1
LoopHead ==
  /\ Alive /\ pc = "loop_head"
  /\ IF LoopCondition(step, max_steps)
     THEN step' = step + 1 /\ pc' = "capture"
     ELSE step' = step /\ pc' = "finish"
  /\ UNCHANGED << max_steps, messages, response_text, tool_calls, tool_result, scan_i,
                  manual_intervention_detected, is_paused, pause_reason, result,
                  histVars, fresh, pause_event, status_queue, published, task_queue, is_running,
                  guiVars, shotVars, unitVars >>

\* capture_screenshot at the start of the step and the user message built on it
CaptureOk ==
  /\ Alive /\ pc = "capture"
  /\ screen_changed' = FALSE
  /\ UNCHANGED resume_pending
  /\ messages' = Append(messages, Msg("user", IF step = 1 THEN "task" ELSE "screen", << >>))
  /\ pc' = "check_pause"
  /\ UNCHANGED << step, max_steps, response_text, tool_calls, tool_result, scan_i,
                  manual_intervention_detected, is_paused, pause_reason, result,
                  histVars, fresh, pause_event, status_queue, published, task_queue, is_running,
                  guiVars, unitVars >>

\* capture_screenshot raises (PermissionError, or another exception): the
\* handler re-raises and the outer "except Exception" returns
CaptureFails ==
  /\ Alive /\ pc = "capture"
  /\ loop_error' = "capture"
  /\ result' = FailureResult
  /\ pc' = "returned"
  /\ UNCHANGED << step, max_steps, messages, response_text, tool_calls, tool_result,
                  scan_i, manual_intervention_detected, is_paused, pause_reason,
                  model_calls, exec_outcomes, invoked, gate_reason, blocks, resumes, fresh,
                  pause_event, status_queue, published, task_queue, is_running, guiVars, shotVars, unitVars >>

\* check_and_handle_pause, and handle_manual_intervention_pause up to the wait
CheckPause ==
  /\ Alive /\ pc = "check_pause"
  /\ IF manual_intervention_detected
     THEN /\ manual_intervention_detected' = FALSE
          /\ is_paused' = TRUE
          /\ NotifyPaused(pause_reason, "hmip_wait")
     ELSE /\ pc' = "call_model"
          /\ UNCHANGED << manual_intervention_detected, is_paused, status_queue, published,
                          after_show, fresh, gate_reason, blocks >>
  /\ UNCHANGED << step, max_steps, messages, response_text, tool_calls, tool_result,
                  scan_i, pause_reason, result, model_calls, exec_outcomes, invoked,
                  resumes, loop_error, pause_event, task_queue, is_running,
                  continue_button, pause_frame, submitted, gui, shotVars, unitVars >>

WaitPcs == {"pt_wait", "kw_wait", "gen_wait", "hmip_wait"}

AfterWait(p) ==
  CASE p = "pt_wait" -> "pt_clear"
    [] p = "kw_wait" -> "kw_clear"
    [] p = "gen_wait" -> "gen_clear"
    [] OTHER -> "hmip_clear"

\* self.pause_event.wait() returns
GateWait ==
  /\ Alive /\ pc \in WaitPcs
  /\ screen_changed' = TRUE
  /\ resume_pending' = TRUE
  /\ WaitReturns(pause_event)
  /\ pc' = AfterWait(pc)
  /\ resumes' = resumes + 1
  /\ UNCHANGED << agentVars, model_calls, exec_outcomes, invoked, gate_reason, blocks,
                  loop_error, fresh, pause_event, status_queue, published, task_queue,
                  is_running, guiVars, unitVars >>

\* handle_manual_intervention_pause after the wait, then the re-capture and the
\* resume message of run_task
HmipResume ==
  /\ Alive /\ pc = "hmip_clear"
  /\ pause_event' = FALSE
  /\ is_paused' = FALSE
  /\ pause_reason' = ""
  /\ \E ok \in BOOLEAN :
       IF ok
       THEN /\ messages' = Append(messages, Msg("user", "resume", << >>))
            /\ screen_changed' = FALSE
            /\ resume_pending' = FALSE
            /\ pc' = "call_model"
            /\ UNCHANGED << result, loop_error >>
       ELSE /\ loop_error' = "recapture"
            /\ result' = FailureResult
            /\ pc' = "returned"
            /\ UNCHANGED << messages, shotVars >>
  /\ UNCHANGED << step, max_steps, response_text, tool_calls, tool_result, scan_i,
                  manual_intervention_detected, model_calls, exec_outcomes, invoked,
                  gate_reason, blocks, resumes, fresh, status_queue, published, task_queue, is_running,
                  guiVars, unitVars >>

\* client.chat.completions.create returns a response; it is appended and parsed
ModelResponds ==
  /\ Alive /\ pc = "call_model"
  /\ model_calls' = model_calls + 1
  /\ \E r \in Responses :
       /\ response_text' = r
       /\ messages' = Append(messages, Msg("assistant", "reply", r))
       /\ tool_calls' = parse_tool_calls(r)
       /\ pc' = IF parse_tool_calls(r) # << >> THEN "execute" ELSE "no_calls"
  /\ gate_reason' = ""
  /\ blocks' = 0
  /\ exec_outcomes' = << >>
  /\ invoked' = << >>
  /\ UNCHANGED << step, max_steps, tool_result, scan_i, manual_intervention_detected,
                  is_paused, pause_reason, result, resumes,
                  loop_error, fresh, pause_event, status_queue, published, task_queue,
                  is_running, guiVars, shotVars, unitVars >>

\* (mutant) the failed call is tried again
ModelRaisesRetry ==
  /\ Alive /\ pc = "call_model"
  /\ model_calls' = model_calls + 1
  /\ loop_error' = "model"
  /\ UNCHANGED << pc, agentVars, exec_outcomes, invoked, gate_reason, blocks, resumes, fresh,
                  pause_event, status_queue, published, task_queue, is_running, guiVars, shotVars, unitVars >>

\* client.chat.completions.create raises: the outer "except Exception" returns
ModelRaises ==
  /\ Alive /\ pc = "call_model"
  /\ model_calls' = model_calls + 1
  /\ loop_error' = "model"
  /\ result' = FailureResult
  /\ pc' = "returned"
  /\ UNCHANGED << step, max_steps, messages, response_text, tool_calls, tool_result,
                  scan_i, manual_intervention_detected, is_paused, pause_reason,
                  exec_outcomes, invoked, gate_reason, blocks, resumes, fresh, pause_event,
                  status_queue, published, task_queue, is_running, guiVars, shotVars, unitVars >>

\* tool_result = self.tool_utils.execute_tool_calls(tool_calls)
Execute ==
  /\ Alive /\ pc = "execute"
  /\ screen_changed' = TRUE
  /\ UNCHANGED resume_pending
  /\ \E oc \in OutcomeVectors(tool_calls) :
       /\ tool_result' = execute_tool_calls(tool_calls, oc).results
       /\ invoked' = execute_tool_calls(tool_calls, oc).invoked
       /\ exec_outcomes' = oc
  /\ scan_i' = 1
  /\ pc' = "scan_calls"
  /\ UNCHANGED << step, max_steps, messages, response_text, tool_calls,
                  manual_intervention_detected, is_paused, pause_reason, result,
                  model_calls, gate_reason, blocks, resumes, loop_error, fresh, pause_event,
                  status_queue, published, task_queue, is_running, guiVars, unitVars >>

AtCall == pc = "scan_calls" /\ scan_i <= Len(tool_calls)

\* for call in tool_calls: neither pause_task nor complete_task
ScanOther ==
  /\ Alive /\ AtCall
  /\ tool_calls[scan_i].name \notin {"pause_task", "complete_task"}
  /\ scan_i' = scan_i + 1
  /\ UNCHANGED << pc, step, max_steps, messages, response_text, tool_calls, tool_result,
                  manual_intervention_detected, is_paused, pause_reason, result,
                  histVars, fresh, pause_event, status_queue, published, task_queue, is_running,
                  guiVars, shotVars, unitVars >>

\* call['name'] == 'pause_task': notify the GUI and go to wait
ScanPause ==
  /\ Alive /\ AtCall
  /\ tool_calls[scan_i].name = "pause_task"
  /\ NotifyPaused(PauseReasonOf(tool_calls[scan_i]), "pt_wait")
  /\ UNCHANGED << agentVars, model_calls, exec_outcomes, invoked, resumes, loop_error,
                  pause_event, task_queue, is_running, continue_button, pause_frame,
                  submitted, gui, shotVars, unitVars >>

\* after the wait: clear, re-capture, resume message, "continue" of the for
\* loop; a failing re-capture is caught by the inner "except Exception", which
\* replaces tool_result, and the result message is appended
PauseResume ==
  /\ Alive /\ pc = "pt_clear"
  /\ pause_event' = FALSE
  /\ \E ok \in BOOLEAN :
       IF ok
       THEN /\ messages' = Append(messages, Msg("user", "resume", << >>))
            /\ screen_changed' = FALSE
            /\ resume_pending' = FALSE
            /\ scan_i' = scan_i + 1
            /\ pc' = "scan_calls"
            /\ UNCHANGED tool_result
       ELSE /\ tool_result' = << [kind |-> "failed", name |-> "recapture"] >>
            /\ messages' = Append(messages,
                 Msg("user", "tool_result", << [kind |-> "failed", name |-> "recapture"] >>))
            /\ pc' = "loop_head"
            /\ UNCHANGED << scan_i, shotVars >>
  /\ UNCHANGED << step, max_steps, response_text, tool_calls,
                  manual_intervention_detected, is_paused, pause_reason, result,
                  histVars, fresh, status_queue, published, task_queue, is_running, guiVars,
                  unitVars >>

\* (mutant) a step_update_callback that puts the task_complete event of
\* run_task on the status queue as well
ScanCompleteNotifies ==
  /\ Alive /\ AtCall
  /\ tool_calls[scan_i].name = "complete_task"
  /\ result' = CompletedResult(tool_calls[scan_i])
  /\ status_queue' = Append(status_queue, CompleteEvent("[wancheng]"))
  /\ published' = Append(published, CompleteEvent("[wancheng]"))
  /\ pc' = "returned"
  /\ UNCHANGED << step, max_steps, messages, response_text, tool_calls, tool_result,
                  scan_i, manual_intervention_detected, is_paused, pause_reason,
                  histVars, fresh, pause_event, task_queue, is_running,
                  guiVars, shotVars, unitVars >>

\* call['name'] == 'complete_task': return; the GUI's step_update_callback
\* ignores every event kind but "task_paused"
ScanComplete ==
  /\ Alive /\ AtCall
  /\ tool_calls[scan_i].name = "complete_task"
  /\ result' = CompletedResult(tool_calls[scan_i])
  /\ pc' = "returned"
  /\ UNCHANGED << step, max_steps, messages, response_text, tool_calls, tool_result,
                  scan_i, manual_intervention_detected, is_paused, pause_reason,
                  histVars, fresh, pause_event, status_queue, published, task_queue, is_running,
                  guiVars, shotVars, unitVars >>

\* the for loop is over: the result message is appended
ScanDone ==
  /\ Alive /\ pc = "scan_calls" /\ scan_i > Len(tool_calls)
  /\ messages' = Append(messages, Msg("user", "tool_result", tool_result))
  /\ pc' = "loop_head"
  /\ UNCHANGED << step, max_steps, response_text, tool_calls, tool_result, scan_i,
                  manual_intervention_detected, is_paused, pause_reason, result,
                  histVars, fresh, pause_event, status_queue, published, task_queue, is_running,
                  guiVars, shotVars, unitVars >>

\* no tool call, and detect_manual_intervention_required finds a pattern
NoCallsKeyword ==
  /\ Alive /\ pc = "no_calls"
  /\ detect_manual_intervention_required(response_text) # ""
  /\ manual_intervention_detected' = TRUE
  /\ pause_reason' = detect_manual_intervention_required(response_text)
  /\ NotifyPaused(detect_manual_intervention_required(response_text), "kw_wait")
  /\ UNCHANGED << step, max_steps, messages, response_text, tool_calls, tool_result,
                  scan_i, is_paused, result, model_calls, exec_outcomes, invoked,
                  resumes, loop_error, pause_event, task_queue, is_running,
                  continue_button, pause_frame, submitted, gui, shotVars, unitVars >>

KeywordResume ==
  /\ Alive /\ pc = "kw_clear"
  /\ pause_event' = FALSE
  /\ pc' = "loop_head"
  /\ UNCHANGED << agentVars, histVars, fresh, status_queue, published, task_queue, is_running,
                  guiVars, shotVars, unitVars >>

\* no tool call, no pattern, and a "needs the user" phrase
NoCallsUserInput ==
  /\ Alive /\ pc = "no_calls"
  /\ detect_manual_intervention_required(response_text) = ""
  /\ need_user_input(response_text)
  /\ NotifyPaused("[xuyao yonghu caozuo]", "gen_wait")
  /\ UNCHANGED << agentVars, model_calls, exec_outcomes, invoked, resumes, loop_error,
                  pause_event, task_queue, is_running, continue_button, pause_frame,
                  submitted, gui, shotVars, unitVars >>

\* after the wait: clear, re-capture (a failure reaches the outer handler),
\* resume message
UserInputResume ==
  /\ Alive /\ pc = "gen_clear"
  /\ pause_event' = FALSE
  /\ \E ok \in BOOLEAN :
       IF ok
       THEN /\ messages' = Append(messages, Msg("user", "resume", << >>))
            /\ screen_changed' = FALSE
            /\ resume_pending' = FALSE
            /\ pc' = "loop_head"
            /\ UNCHANGED << result, loop_error >>
       ELSE /\ loop_error' = "recapture"
            /\ result' = FailureResult
            /\ pc' = "returned"
            /\ UNCHANGED << messages, shotVars >>
  /\ UNCHANGED << step, max_steps, response_text, tool_calls, tool_result, scan_i,
                  manual_intervention_detected, is_paused, pause_reason, model_calls,
                  exec_outcomes, invoked, gate_reason, blocks, resumes, fresh, status_queue, published,
                  task_queue, is_running, guiVars, unitVars >>

\* (mutant) the note is appended and the loop goes on to its next step
NoCallsContinue ==
  /\ Alive /\ pc = "no_calls"
  /\ detect_manual_intervention_required(response_text) = ""
  /\ ~need_user_input(response_text)
  /\ messages' = Append(messages, Msg("user", "done_note", << >>))
  /\ pc' = "loop_head"
  /\ UNCHANGED << step, max_steps, response_text, tool_calls, tool_result, scan_i,
                  manual_intervention_detected, is_paused, pause_reason, result,
                  histVars, fresh, pause_event, status_queue, published, task_queue, is_running,
                  guiVars, shotVars, unitVars >>

\* no tool call, no pattern, no phrase: note appended, break
NoCallsDone ==
  /\ Alive /\ pc = "no_calls"
  /\ detect_manual_intervention_required(response_text) = ""
  /\ ~need_user_input(response_text)
  /\ messages' = Append(messages, Msg("user", "done_note", << >>))
  /\ pc' = "finish"
  /\ UNCHANGED << step, max_steps, response_text, tool_calls, tool_result, scan_i,
                  manual_intervention_detected, is_paused, pause_reason, result,
                  histVars, fresh, pause_event, status_queue, published, task_queue, is_running,
                  guiVars, shotVars, unitVars >>

\* after the while loop: return the last assistant reply
Finish ==
  /\ Alive /\ pc = "finish"
  /\ result' = LastAssistant(messages)
  /\ pc' = "returned"
  /\ UNCHANGED << step, max_steps, messages, response_text, tool_calls, tool_result,
                  scan_i, manual_intervention_detected, is_paused, pause_reason,
                  histVars, fresh, pause_event, status_queue, published, task_queue, is_running,
                  guiVars, shotVars, unitVars >>

(***************************************************************************)
(* MinimalGUI: handlers of the Tk main loop.                               *)
(***************************************************************************)
\* root.after(0, show_pause_interface): the pause frame replaces the main frame
ShowPauseInterface ==
  /\ Alive /\ after_show > 0
  /\ after_show' = after_show - 1
  /\ pause_frame' = TRUE
  /\ UNCHANGED << pc, agentVars, histVars, fresh, pause_event, status_queue, published, task_queue,
                  is_running, continue_button, submitted, gui, shotVars, unitVars >>

\* a continue button the user can press: the pause frame's, shown with the
\* frame, or the main frame's when it is shown and NORMAL
CanPressContinue(frame, button) == frame \/ button

\* (mutant) the event is set only when the agent says it is paused
ContinueTaskWhenPaused ==
  /\ Alive /\ CanPressContinue(pause_frame, continue_button)
  /\ pause_frame' = FALSE
  /\ pause_event' = (pause_event \/ is_paused)
  /\ continue_button' = FALSE
  /\ fresh' = TRUE
  /\ UNCHANGED << pc, agentVars, histVars, status_queue, published, task_queue, is_running,
                  after_show, submitted, gui, shotVars, unitVars >>

\* continue_task
ContinueTask ==
  /\ Alive /\ CanPressContinue(pause_frame, continue_button)
  /\ pause_frame' = FALSE
  /\ pause_event' = TRUE
  /\ continue_button' = FALSE
  /\ fresh' = TRUE
  /\ UNCHANGED << pc, agentVars, histVars, status_queue, published, task_queue, is_running,
                  after_show, submitted, gui, shotVars, unitVars >>

\* update_status drains the queue: the button's state after the events, and
\* whether a task_complete event scheduled root.quit
RECURSIVE ButtonAfter(_, _)
ButtonAfter(events, button) ==
  IF events = << >> THEN button
  ELSE ButtonAfter(Tail(events),
                   CASE Head(events).type = "task_complete" -> FALSE
                     [] Head(events).type = "task_paused" -> TRUE
                     [] OTHER -> button)

QuitScheduled(events) ==
  \E k \in 1..Len(events) : events[k].type = "task_complete"

UpdateStatus ==
  /\ Alive /\ status_queue # << >>
  /\ continue_button' = ButtonAfter(status_queue, continue_button)
  /\ gui' = IF QuitScheduled(status_queue) THEN "quitting" ELSE gui
  /\ status_queue' = << >>
  /\ UNCHANGED published
  /\ UNCHANGED << pc, agentVars, histVars, fresh, pause_event, task_queue, is_running,
                  pause_frame, after_show, submitted, shotVars, unitVars >>

\* root.quit: the main loop ends and the process with it
Quit ==
  /\ gui = "quitting"
  /\ gui' = "quit"
  /\ UNCHANGED << pc, agentVars, histVars, fresh, pause_event, status_queue, published, task_queue,
                  is_running, continue_button, pause_frame, after_show, submitted,
                  shotVars, unitVars >>

Next ==
  \/ ExecuteTask \/ WorkerStart \/ WorkerTake \/ WorkerEmpty \/ WorkerExit
  \/ WorkerPublish
  \/ RunTaskStart \/ LoopHead \/ CaptureOk \/ CaptureFails \/ CheckPause \/ GateWait
  \/ HmipResume \/ ModelResponds \/ ModelRaises \/ Execute
  \/ ScanOther \/ ScanPause \/ PauseResume \/ ScanComplete \/ ScanDone
  \/ NoCallsKeyword \/ KeywordResume \/ NoCallsUserInput \/ UserInputResume
  \/ NoCallsDone \/ Finish
  \/ ShowPauseInterface \/ ContinueTask \/ UpdateStatus \/ Quit

Spec == Init /\ [][Next]_vars

\* the steps of the worker thread
WorkerStep ==
  \/ WorkerStart \/ WorkerTake \/ WorkerEmpty \/ WorkerExit \/ WorkerPublish
  \/ RunTaskStart \/ LoopHead \/ CaptureOk \/ CaptureFails \/ CheckPause \/ GateWait
  \/ HmipResume \/ ModelResponds \/ ModelRaises \/ Execute
  \/ ScanOther \/ ScanPause \/ PauseResume \/ ScanComplete \/ ScanDone
  \/ NoCallsKeyword \/ KeywordResume \/ NoCallsUserInput \/ UserInputResume
  \/ NoCallsDone \/ Finish

\* SpecFair: the worker thread keeps running (every call it makes returns or
\* raises), the Tk main loop runs its scheduled callbacks, and the user
\* presses Continue when a button is there to press
SpecFair ==
  /\ Spec
  /\ WF_vars(WorkerStep)
  /\ WF_vars(ShowPauseInterface)
  /\ WF_vars(ContinueTask)

\* SpecLoopFair: the worker thread keeps running; nothing is assumed of the
\* Tk main loop or of the user
SpecLoopFair ==
  /\ Spec
  /\ WF_vars(WorkerStep)

(***************************************************************************)
(* SpecParse: parse_tool_calls applied to every text of at most MaxTextLen *)
(* tokens.                                                                 *)
(***************************************************************************)
ParseAlphabet ==
  { MARK, NL, SP, DOT, "[hao]",
    "mouse_click(x=0.5, y=0.5)", "wait(seconds=1)", "press(k=1)",
    "type_text(text=\"f(x)\")", "await(seconds=1)" }

RECURSIVE TextsUpTo(_)
TextsUpTo(n) ==
  IF n = 0 THEN { << >> }
  ELSE LET shorter == TextsUpTo(n - 1) IN
       shorter \cup { Append(t, a) : t \in { u \in shorter : Len(u) = n - 1 }, a \in ParseAlphabet }

InitParse ==
  /\ p_pc = "input"
  /\ p_text \in TextsUpTo(MaxTextLen)
  /\ p_calls = << >>
  /\ HandlerIdle /\ CoordIdle /\ WorkersIdle /\ InitMain

Parse ==
  /\ p_pc = "input"
  /\ p_calls' = parse_tool_calls(p_text)
  /\ p_pc' = "parsed"
  /\ UNCHANGED << p_text, handlerVars, coordVars, workerVars, mainVars >>

NextParse == Parse

SpecParse == InitParse /\ [][NextParse]_vars

(***************************************************************************)
(* SpecPointer: one call of a pointer-action handler (mouse_click,         *)
(* double_click, right_click, mouse_down, mouse_up), statement by          *)
(* statement.  Each call of pyautogui returns or raises.                   *)
(***************************************************************************)
PointerTools == {"mouse_click", "double_click", "right_click", "mouse_down", "mouse_up"}

\* distance_to_target values on either side of the threshold of 50 pixels
Distances == {0, 50, 51}

\* the calls: the clicks argument exists for mouse_click only
PointerCalls ==
  { [tool |-> t, move_first |-> mf, distance |-> d, clicks |-> n] :
      t \in PointerTools, mf \in BOOLEAN, d \in Distances, n \in 1..MaxClicks }
  \ { c \in [tool : PointerTools, move_first : BOOLEAN, distance : Distances,
              clicks : 1..MaxClicks] : c.tool # "mouse_click" /\ c.clicks # 1 }

\* the event the handler hands to pyautogui; right_click is
\* mouse_click(button="right", clicks=1) and double_click passes clicks=2
RequestedEvent(call) ==
  CASE call.tool = "mouse_click" -> [kind |-> "click", button |-> "left", clicks |-> call.clicks]
    [] call.tool = "right_click" -> [kind |-> "click", button |-> "right", clicks |-> 1]
    [] call.tool = "double_click" -> [kind |-> "click", button |-> "left", clicks |-> 2]
    [] call.tool = "mouse_down" -> [kind |-> "mouseDown", button |-> "left", clicks |-> 1]
    [] OTHER -> [kind |-> "mouseUp", button |-> "left", clicks |-> 1]

\* if move_first or distance_to_target > 50
MovesFirst(call) == call.move_first \/ call.distance > 50

InitPointer ==
  /\ h_pc = "position"
  /\ h_call \in PointerCalls
  /\ h_events = << >>
  /\ h_bound = FALSE
  /\ ParseIdle /\ CoordIdle /\ WorkersIdle /\ InitMain

\* try: pyautogui.position() and the choice of the path
Position ==
  /\ h_pc = "position"
  /\ \E raises \in BOOLEAN :
       h_pc' = IF raises THEN "except"
               ELSE IF MovesFirst(h_call) THEN "move" ELSE "act"
  /\ UNCHANGED << h_call, h_events, h_bound, parseVars, coordVars, workerVars, mainVars >>

\* the moving path: moveTo, position, x_error and y_error, the corrections
Move ==
  /\ h_pc = "move"
  /\ \E raises \in BOOLEAN :
       IF raises THEN h_pc' = "except" /\ UNCHANGED h_bound
       ELSE h_pc' = "act" /\ h_bound' = TRUE
  /\ UNCHANGED << h_call, h_events, parseVars, coordVars, workerVars, mainVars >>

\* pyautogui.click / mouseDown / mouseUp at the pointer's position
Act ==
  /\ h_pc = "act"
  /\ \E raises \in BOOLEAN :
       IF raises THEN h_pc' = "except" /\ UNCHANGED h_events
       ELSE h_pc' = "report" /\ h_events' = Append(h_events, RequestedEvent(h_call))
  /\ UNCHANGED << h_call, h_bound, parseVars, coordVars, workerVars, mainVars >>

\* return f"... X{int(x_error)}px, Y{int(y_error)}px": the names are unbound
\* on the path that did not move, and the UnboundLocalError is caught by the
\* handler's own "except Exception"
Report ==
  /\ h_pc = "report"
  /\ h_pc' = IF h_bound THEN "returned" ELSE "except"
  /\ UNCHANGED << h_call, h_events, h_bound, parseVars, coordVars, workerVars, mainVars >>

\* except Exception: the backup event at the rounded target; an exception in
\* it leaves the handler
Fallback ==
  /\ h_pc = "except"
  /\ \E raises \in BOOLEAN :
       IF raises THEN h_pc' = "raised" /\ UNCHANGED h_events
       ELSE h_pc' = "returned" /\ h_events' = Append(h_events, RequestedEvent(h_call))
  /\ UNCHANGED << h_call, h_bound, parseVars, coordVars, workerVars, mainVars >>

NextPointer == Position \/ Move \/ Act \/ Report \/ Fallback

SpecPointer == InitPointer /\ [][NextPointer]_vars

(***************************************************************************)
(* CoordinateConverter.convert_proportion_to_actual.  A proportion is the  *)
(* integer n standing for n/PropDen; pixels are counted in units of        *)
(* 1/Scale, the precision round(v, 4) keeps.                               *)
(***************************************************************************)
safe_margin == 5
Scale == 10000

Max(a, b) == IF a >= b THEN a ELSE b
Min(a, b) == IF a <= b THEN a ELSE b

\* a / b rounded to the nearest integer, b > 0 (no tie occurs: PropDen has
\* no factor 32)
RoundDiv(a, b) == (2 * a + b) \div (2 * b)

\* max(0.0, min(1.0, float(proportion)))
ClampProportion(n) == Max(0, Min(PropDen, n))

\* (mutant) the bounds mouse_down uses: max(0.0, min(float(dim - 1), actual))
ClampToScreen(a, dim) == Max(0, Min((dim - 1) * PropDen, a))

\* max(float(safe_margin), min(float(dim - safe_margin), actual)), on pixels
\* counted in units of 1/PropDen
ClampToMargin(a, dim) == Max(safe_margin * PropDen, Min((dim - safe_margin) * PropDen, a))

\* one axis: clamp the proportion, multiply by the dimension, clamp to the
\* margins, round to 4 places
ConvertAxis(n, dim) ==
  RoundDiv(ClampToMargin(ClampProportion(n) * dim, dim) * Scale, PropDen)

convert_proportion_to_actual(x, y, width, height) ==
  [x |-> ConvertAxis(x, width), y |-> ConvertAxis(y, height)]

(***************************************************************************)
(* SpecMove: the moving path of mouse_click, statement by statement, with  *)
(* every call of pyautogui returning.  Positions are whole pixels; a point *)
(* handed to moveTo is the pair x/den, y/den.                              *)
(***************************************************************************)
Abs(n) == IF n >= 0 THEN n ELSE -n

\* the targets, and where the pointer is when the handler is called, as
\* offsets from the target on each axis
MoveTargets == { [x |-> 100, y |-> 100], [x |-> 40, y |-> 60], [x |-> 5, y |-> 100] }

\* screen_width, screen_height = pyautogui.size()
MoveScreen == [width |-> 136, height |-> 136]

MoveOffsets == {-30, -5, 0, 5, 30}

\* actual_x, actual_y; current_x, current_y; and final_x, final_y, what
\* pyautogui.position() returns after the final moveTo; the pointer is found
\* on the screen
MoveCalls ==
  { c \in
      { [actual |-> a,
         current |-> [x |-> a.x + ox, y |-> a.y + oy],
         final |-> [x |-> a.x + ex, y |-> a.y + ey]] :
          a \in MoveTargets, ox \in MoveOffsets, oy \in MoveOffsets,
          ex \in (-MaxError)..MaxError, ey \in (-MaxError)..MaxError } :
      /\ c.current.x \in 0..(MoveScreen.width - 1)
      /\ c.current.y \in 0..(MoveScreen.height - 1)
      /\ c.final.x \in 0..(MoveScreen.width - 1)
      /\ c.final.y \in 0..(MoveScreen.height - 1) }

\* intermediate_x = actual_x + (actual_x - current_x) * 0.8, in fifths of a
\* pixel
Intermediate(actual, current) == 5 * actual + 4 * (actual - current)

\* steps = max(int(max(x_error, y_error) / 2), 1)
CorrectionSteps(x_error, y_error) == Max(Max(x_error, y_error) \div 2, 1)

\* temp = final + step * (i + 1) for i in range(steps), with
\* step = correction / steps: the points handed to moveTo from the i-th on
RECURSIVE CorrectionMoves(_, _, _, _)
CorrectionMoves(final, actual, steps, i) ==
  IF i > steps THEN << >>
  ELSE << [kind |-> "correct",
           x |-> final.x * steps + (actual.x - final.x) * i,
           y |-> final.y * steps + (actual.y - final.y) * i,
           den |-> steps] >>
       \o CorrectionMoves(final, actual, steps, i + 1)

InitMove ==
  /\ h_pc = "intermediate"
  /\ h_call \in MoveCalls
  /\ h_events = << >>
  /\ h_bound = FALSE
  /\ ParseIdle /\ CoordIdle /\ WorkersIdle /\ InitMain

\* the intermediate point, and the moveTo to it unless it is within 10 pixels
\* of the pointer on both axes
MoveNear ==
  /\ h_pc = "intermediate"
  /\ LET ix == Intermediate(h_call.actual.x, h_call.current.x)
         iy == Intermediate(h_call.actual.y, h_call.current.y)
     IN h_events' =
          IF Abs(ix - 5 * h_call.current.x) > 50 \/ Abs(iy - 5 * h_call.current.y) > 50
          THEN Append(h_events, [kind |-> "near", x |-> ix, y |-> iy, den |-> 5])
          ELSE h_events
  /\ h_pc' = "final"
  /\ UNCHANGED << h_call, h_bound, parseVars, coordVars, workerVars, mainVars >>

\* moveTo(actual_x, actual_y), position(), x_error and y_error
MoveFinal ==
  /\ h_pc = "final"
  /\ h_events' = Append(h_events, [kind |-> "final", x |-> h_call.actual.x,
                                   y |-> h_call.actual.y, den |-> 1])
  /\ h_bound' = TRUE
  /\ h_pc' = "verify"
  /\ UNCHANGED << h_call, parseVars, coordVars, workerVars, mainVars >>

\* if x_error > 2 or y_error > 2: the loop of corrections
Correct ==
  /\ h_pc = "verify"
  /\ LET x_error == Abs(h_call.final.x - h_call.actual.x)
         y_error == Abs(h_call.final.y - h_call.actual.y)
     IN h_events' =
          IF x_error > 2 \/ y_error > 2
          THEN h_events \o CorrectionMoves(h_call.final, h_call.actual,
                                           CorrectionSteps(x_error, y_error), 1)
          ELSE h_events
  /\ h_pc' = "settled"
  /\ UNCHANGED << h_call, h_bound, parseVars, coordVars, workerVars, mainVars >>

NextMove == MoveNear \/ MoveFinal \/ Correct

SpecMove == InitMove /\ [][NextMove]_vars

(***************************************************************************)
(* SpecCoord: the converter applied to every screen size of 8..MaxDim      *)
(* pixels a side and every proportion of -1 to 2.                          *)
(***************************************************************************)
InitCoord ==
  /\ c_pc = "input"
  /\ c_in \in [width : 8..MaxDim, height : 8..MaxDim,
                x : (-PropDen)..(2 * PropDen), y : (-PropDen)..(2 * PropDen)]
  /\ c_out = << >>
  /\ ParseIdle /\ HandlerIdle /\ WorkersIdle /\ InitMain

Convert ==
  /\ c_pc = "input"
  /\ c_out' = convert_proportion_to_actual(c_in.x, c_in.y, c_in.width, c_in.height)
  /\ c_pc' = "converted"
  /\ UNCHANGED << c_in, parseVars, handlerVars, workerVars, mainVars >>

NextCoord == Convert

SpecCoord == InitCoord /\ [][NextCoord]_vars

(***************************************************************************)
(* CoordinateConverter.convert_relative_to_actual.  A coordinate is the    *)
(* fraction num/den of a pixel.                                            *)
(***************************************************************************)
\* (mutant) the ratio scaled / original
ScaleDown(q, original, scaled) == [num |-> q.num * scaled, den |-> q.den * original]

\* float(x_relative) * (float(original) / float(scaled))
ScaleUp(q, original, scaled) == [num |-> q.num * original, den |-> q.den * scaled]

\* max(float(safe_margin), min(float(original - safe_margin), actual))
ClampFraction(q, original) ==
  LET capped == IF q.num > (original - safe_margin) * q.den
                THEN [num |-> (original - safe_margin) * q.den, den |-> q.den]
                ELSE q
  IN IF capped.num < safe_margin * capped.den
     THEN [num |-> safe_margin * capped.den, den |-> capped.den]
     ELSE capped

convert_relative_to_actual(x_relative, y_relative, g) ==
  IF g.scaled_width = 0 \/ g.scaled_height = 0
  THEN [x |-> x_relative, y |-> y_relative]
  ELSE [x |-> ClampFraction(ScaleUp(x_relative, g.width, g.scaled_width), g.width),
        y |-> ClampFraction(ScaleUp(y_relative, g.height, g.scaled_height), g.height)]

(***************************************************************************)
(* SpecRelative: convert_relative_to_actual applied, for screens of        *)
(* MaxDim - 1 and MaxDim pixels a side and scaled sizes from none to the   *)
(* full size, to the scaled-space coordinate of every pixel (X, Y) of the  *)
(* screen.                                                                 *)
(***************************************************************************)
\* scaled sizes of a side: not set, 1, half, one less than the side, the side
ScaledOf(dim) == {0, 1, dim \div 2, dim - 1, dim}

Geometries ==
  { [width |-> w, height |-> h, scaled_width |-> sw, scaled_height |-> sh] :
      w \in (MaxDim - 1)..MaxDim, h \in (MaxDim - 1)..MaxDim,
      sw \in ScaledOf(MaxDim - 1) \cup ScaledOf(MaxDim),
      sh \in ScaledOf(MaxDim - 1) \cup ScaledOf(MaxDim) }
  \ { g \in [width : (MaxDim - 1)..MaxDim, height : (MaxDim - 1)..MaxDim,
              scaled_width : 0..MaxDim, scaled_height : 0..MaxDim] :
        g.scaled_width \notin ScaledOf(g.width) \/ g.scaled_height \notin ScaledOf(g.height) }

\* the pixel (X, Y) in the space of the scaled screenshot:
\* X * scaled_width / width, Y * scaled_height / height
InScaledSpace(X, Y, g) ==
  [x |-> [num |-> X * g.scaled_width, den |-> g.width],
   y |-> [num |-> Y * g.scaled_height, den |-> g.height]]

InitRelative ==
  /\ c_pc = "relative_input"
  /\ \E g \in Geometries, X \in 0..(MaxDim - 1), Y \in 0..(MaxDim - 1) :
       /\ X < g.width /\ Y < g.height
       /\ c_in = [geometry |-> g, X |-> X, Y |-> Y, relative |-> InScaledSpace(X, Y, g)]
  /\ c_out = << >>
  /\ ParseIdle /\ HandlerIdle /\ WorkersIdle /\ InitMain

ConvertRelative ==
  /\ c_pc = "relative_input"
  /\ c_out' = convert_relative_to_actual(c_in.relative.x, c_in.relative.y, c_in.geometry)
  /\ c_pc' = "relative_converted"
  /\ UNCHANGED << c_in, parseVars, handlerVars, workerVars, mainVars >>

NextRelative == ConvertRelative

SpecRelative == InitRelative /\ [][NextRelative]_vars

(***************************************************************************)
(* SpecArgs: the argument loop applied to k=<value> for every value of at  *)
(* most MaxValueLen characters.                                            *)
(***************************************************************************)
ValueAlphabet == { QUOTE, MINUS, DOT, "5", "a" }

RECURSIVE ValuesUpTo(_)
ValuesUpTo(n) ==
  IF n = 0 THEN { << >> }
  ELSE LET shorter == ValuesUpTo(n - 1) IN
       shorter \cup { Append(t, a) : t \in { u \in shorter : Len(u) = n - 1 }, a \in ValueAlphabet }

InitArgs ==
  /\ p_pc = "arg_input"
  /\ p_text \in ValuesUpTo(MaxValueLen)
  /\ p_calls = [present |-> FALSE, type |-> "", text |-> << >>]
  /\ HandlerIdle /\ CoordIdle /\ WorkersIdle /\ InitMain

ParseArgs ==
  /\ p_pc = "arg_input"
  /\ p_calls' = parse_arg(p_text)
  /\ p_pc' = "arg_parsed"
  /\ UNCHANGED << p_text, handlerVars, coordVars, workerVars, mainVars >>

NextArgs == ParseArgs

SpecArgs == InitArgs /\ [][NextArgs]_vars

(***************************************************************************)
(* AdapterUtils.apply_adjustment.  A proportion is the integer n standing  *)
(* for n/PropDen, an offset likewise.                                      *)
(***************************************************************************)
\* a key a rule does not have, and an adapter_id that is not given
None == "None"

\* the keys of self.adapters: one adapter file is loaded
LoadedAdapters == {"app"}

\* max(0, min(1, adjusted))
Clamp01(n) == Max(0, Min(PropDen, n))

\* rule.get('type') == target_type or rule.get('target') == target_type
RuleMatches(rule, target_type) ==
  rule.type = target_type \/ rule.target = target_type

\* (mutant) the last rule of the list that matches, 0 when none does
RECURSIVE LastMatching(_, _, _)
LastMatching(rules, target_type, i) ==
  IF i > Len(rules) THEN 0
  ELSE LET later == LastMatching(rules, target_type, i + 1) IN
       IF later # 0 THEN later
       ELSE IF RuleMatches(rules[i], target_type) THEN i
       ELSE 0

\* for rule in rules: the index of the rule the loop returns at, from rule i
\* on, 0 when the loop runs to its end
RECURSIVE FirstMatching(_, _, _)
FirstMatching(rules, target_type, i) ==
  IF i > Len(rules) THEN 0
  ELSE IF RuleMatches(rules[i], target_type) THEN i
  ELSE FirstMatching(rules, target_type, i + 1)

\* rules is self.adapters["app"]["rules"]
apply_adjustment(x, y, adapter_id, target_type, rules) ==
  IF adapter_id \in {None, ""} \/ adapter_id \notin LoadedAdapters
  THEN [x |-> x, y |-> y]
  ELSE LET k == FirstMatching(rules, target_type, 1) IN
       IF k = 0 THEN [x |-> x, y |-> y]
       ELSE [x |-> Clamp01(x + rules[k].adjustment.x),
             y |-> Clamp01(y + rules[k].adjustment.y)]

(***************************************************************************)
(* SpecAdjust: apply_adjustment on every rule list of at most MaxRules     *)
(* rules, every proportion of -1 to 2, the target types the handlers pass  *)
(* and adapter ids given, empty, loaded and not loaded.                    *)
(***************************************************************************)
\* rules of an adapter file: keyed by type, by target, or by both
AdapterRules ==
  { [type |-> "click", target |-> None, adjustment |-> [x |-> 1, y |-> -1]],
    [type |-> None, target |-> "click", adjustment |-> [x |-> -2 * PropDen, y |-> 2 * PropDen]],
    [type |-> "type", target |-> None, adjustment |-> [x |-> 0, y |-> 1]],
    [type |-> "scroll", target |-> "scroll", adjustment |-> [x |-> 1, y |-> 1]] }

RECURSIVE RuleListsUpTo(_)
RuleListsUpTo(n) ==
  IF n = 0 THEN { << >> }
  ELSE LET shorter == RuleListsUpTo(n - 1) IN
       shorter \cup { Append(t, r) : t \in { u \in shorter : Len(u) = n - 1 }, r \in AdapterRules }

\* the literals the handlers pass as target_type
TargetTypes == {"click", "type"}

AdapterIds == {None, "", "app", "other"}

InitAdjust ==
  /\ c_pc = "adjust_input"
  /\ c_in \in [x : (-PropDen)..(2 * PropDen), y : (-PropDen)..(2 * PropDen),
                adapter_id : AdapterIds, target_type : TargetTypes,
                rules : RuleListsUpTo(MaxRules)]
  /\ c_out = << >>
  /\ ParseIdle /\ HandlerIdle /\ WorkersIdle /\ InitMain

Adjust ==
  /\ c_pc = "adjust_input"
  /\ c_out' = apply_adjustment(c_in.x, c_in.y, c_in.adapter_id, c_in.target_type, c_in.rules)
  /\ c_pc' = "adjusted"
  /\ UNCHANGED << c_in, parseVars, handlerVars, workerVars, mainVars >>

NextAdjust == Adjust

SpecAdjust == InitAdjust /\ [][NextAdjust]_vars

(***************************************************************************)
(* SpecWorkers: MinimalGUI.execute_task called up to MaxSubmits times on   *)
(* the Tk thread, and the task_worker threads it starts, interleaved       *)
(* statement by statement.                                                 *)
(***************************************************************************)
InitWorkers ==
  /\ t_pc = << >>
  /\ t_queue = << >>
  /\ t_running = FALSE
  /\ t_calls = 0
  /\ ParseIdle /\ HandlerIdle /\ CoordIdle /\ InitMain

Threads == 1..Len(t_pc)

\* execute_task, with an API key loaded: put the task, and start a thread
\* when is_running is not set
Submit ==
  /\ t_calls < MaxSubmits
  /\ t_calls' = t_calls + 1
  /\ t_queue' = Append(t_queue, t_calls + 1)
  /\ t_pc' = IF ~t_running THEN Append(t_pc, "start") ELSE t_pc
  /\ UNCHANGED << t_running, parseVars, handlerVars, coordVars, mainVars >>

\* task_worker: self.is_running = True
ThreadStart(t) ==
  /\ t_pc[t] = "start"
  /\ t_running' = TRUE
  /\ t_pc' = [t_pc EXCEPT ![t] = "get"]
  /\ UNCHANGED << t_queue, t_calls, parseVars, handlerVars, coordVars, mainVars >>

\* task_queue.get(timeout=0.1) returns a task: the agent is wired and run_task
\* is entered, or the wiring raises and the thread goes on to the next task
ThreadTake(t) ==
  /\ t_pc[t] = "get" /\ t_queue # << >>
  /\ t_queue' = Tail(t_queue)
  /\ \E ok \in BOOLEAN : t_pc' = [t_pc EXCEPT ![t] = IF ok THEN "run" ELSE "get"]
  /\ UNCHANGED << t_running, t_calls, parseVars, handlerVars, coordVars, mainVars >>

\* queue.Empty: break
ThreadEmpty(t) ==
  /\ t_pc[t] = "get" /\ t_queue = << >>
  /\ t_pc' = [t_pc EXCEPT ![t] = "break"]
  /\ UNCHANGED << t_queue, t_running, t_calls, parseVars, handlerVars, coordVars, mainVars >>

\* run_task returns or raises; the outcome is published
ThreadReturn(t) ==
  /\ t_pc[t] = "run"
  /\ t_pc' = [t_pc EXCEPT ![t] = "get"]
  /\ UNCHANGED << t_queue, t_running, t_calls, parseVars, handlerVars, coordVars, mainVars >>

\* self.is_running = False, and the thread ends
ThreadExit(t) ==
  /\ t_pc[t] = "break"
  /\ t_running' = FALSE
  /\ t_pc' = [t_pc EXCEPT ![t] = "exit"]
  /\ UNCHANGED << t_queue, t_calls, parseVars, handlerVars, coordVars, mainVars >>

NextWorkers ==
  \/ Submit
  \/ \E t \in Threads : ThreadStart(t)
  \/ \E t \in Threads : ThreadTake(t)
  \/ \E t \in Threads : ThreadEmpty(t)
  \/ \E t \in Threads : ThreadReturn(t)
  \/ \E t \in Threads : ThreadExit(t)

SpecWorkers == InitWorkers /\ [][NextWorkers]_vars

(***************************************************************************)
(* Claims about the parser (SpecParse, SpecArgs).                          *)
(***************************************************************************)
\* position of the first name(args) span of the text that reads as this call
FirstOccurrence(text, call) ==
  LET at == { k \in 1..Len(text) : IsCall(text[k]) /\ ToolCallOf(<< text[k] >>) = call }
  IN IF at = {} THEN 0 ELSE CHOOSE k \in at : \A l \in at : k <= l

\* C10: parse_tool_calls returns the calls ordered by the position of their
\* first occurrence in the text, whatever notations the text mixes.
C10_ParseOrderIsTextOrder ==
  p_pc = "parsed" =>
    \A i, j \in 1..Len(p_calls) :
      i < j => FirstOccurrence(p_text, p_calls[i]) <= FirstOccurrence(p_text, p_calls[j])

\* the call written in a name(args) span
Written(c) == [name |-> CallTable[c].name, arguments |-> CallTable[c].arguments]

AllWs(text, from, to) == \A k \in from..to : IsWs(text[k])

\* the text is the span c between two markers, whitespace allowed on either
\* side of the span
IsWrapped(text, c) ==
  /\ Len(text) >= 3
  /\ text[1] = MARK /\ text[Len(text)] = MARK
  /\ \E k \in 2..(Len(text) - 1) :
       text[k] = c /\ AllWs(text, 2, k - 1) /\ AllWs(text, k + 1, Len(text) - 1)

\* the text is the span c, optional whitespace and the marker
IsSuffixed(text, c) ==
  /\ Len(text) >= 2
  /\ text[1] = c /\ text[Len(text)] = MARK
  /\ AllWs(text, 2, Len(text) - 1)

\* the text is the span c at the end of the string, at the end of a line or in
\* front of a full stop
IsBare(text, c) ==
  /\ Len(text) >= 1
  /\ text[1] = c
  /\ \/ Len(text) = 1
     \/ text = << c, DOT >>
     \/ (text[Len(text)] = NL /\ AllWs(text, 2, Len(text)))

\* C11: a text that is one call of a registered tool in one of the three
\* notations (the bare one for an allow-listed name) parses to exactly that
\* call: its name and its argument map.
C11_SingleCallYieldsOneToolCall ==
  p_pc = "parsed" =>
    \A c \in CallTokens :
      ( /\ CallTable[c].name \in tools
        /\ \/ IsWrapped(p_text, c)
           \/ IsSuffixed(p_text, c)
           \/ (CallTable[c].name \in BareNames /\ IsBare(p_text, c)) )
        => p_calls = << Written(c) >>

\* C12: a span between two markers that both the delimited and the
\* marker-suffixed pattern match comes out of the parser once, with or without
\* whitespace between the span and its markers.
C12_SpanOfBothPatternsOnce ==
  p_pc = "parsed" =>
    \A c \in CallTokens :
      (IsCall(c) /\ P1Safe(c) /\ IsWrapped(p_text, c)) => p_calls = << Written(c) >>

\* C13: in a text without markers every call of the output is the call of a
\* name(args) span of the text whose identifier is on the bare-form allow-list;
\* a span with another identifier contributes nothing.
C13_OnlyAllowListedBareCalls ==
  (p_pc = "parsed" /\ \A k \in 1..Len(p_text) : p_text[k] # MARK) =>
    \A i \in 1..Len(p_calls) :
      \E k \in 1..Len(p_text) :
        /\ p_text[k] \in CallTokens
        /\ CallTable[p_text[k]].name \in BareNames
        /\ p_calls[i] = Written(p_text[k])


AllDigits(v) == v # << >> /\ \A k \in 1..Len(v) : v[k] \in DigitChars

\* digits, a point, digits
IsUnsignedDecimal(v) ==
  \E k \in 2..(Len(v) - 1) :
    v[k] = DOT /\ AllDigits(SubSeq(v, 1, k - 1)) /\ AllDigits(SubSeq(v, k + 1, Len(v)))

Unsigned(v) == IF v # << >> /\ v[1] = MINUS THEN Tail(v) ELSE v

IsQuotedString(v) ==
  /\ Len(v) >= 2 /\ v[1] = QUOTE /\ v[Len(v)] = QUOTE
  /\ \A k \in 2..(Len(v) - 1) : v[k] # QUOTE

\* the entry the value should give: string without its quotes, int, float
ExpectedArg(v) ==
  IF IsQuotedString(v)
  THEN [present |-> TRUE, type |-> "str", text |-> SubSeq(v, 2, Len(v) - 1)]
  ELSE IF AllDigits(Unsigned(v))
  THEN [present |-> TRUE, type |-> "int", text |-> v]
  ELSE [present |-> TRUE, type |-> "float", text |-> v]

\* C14: a key=value pair whose value is a double-quoted string, an integer
\* literal or a decimal literal, of either sign, is in the argument map under
\* its key as a string without the quotes, an int or a float; it is not
\* dropped.
C14_LiteralArgumentsKeptAndTyped ==
  ( /\ p_pc = "arg_parsed"
    /\ \/ IsQuotedString(p_text)
       \/ AllDigits(Unsigned(p_text))
       \/ IsUnsignedDecimal(Unsigned(p_text)) )
    => p_calls = ExpectedArg(p_text)

(***************************************************************************)
(* Claims about the pointer actions (SpecPointer).                         *)
(***************************************************************************)
\* C15: a pointer-action call that returns has delivered its requested event
\* to the OS exactly once, on the moving path, on the path that does not move
\* and on the fallback path.
C15_EventDeliveredOnce ==
  h_pc = "returned" => h_events = << RequestedEvent(h_call) >>

(***************************************************************************)
(* Claims about the coordinate converter (SpecCoord).                      *)
(***************************************************************************)
InSafeArea(v, dim) == safe_margin * Scale <= v /\ v <= (dim - safe_margin) * Scale

\* C16: on a screen of at least 10 pixels a side the converted point lies
\* within the margins, 5 <= X <= width - 5 and 5 <= Y <= height - 5, whatever
\* the input; an input below 0 converts as 0 does and one above 1 as 1 does.
C16_ConvertedPointInSafeArea ==
  (c_pc = "converted" /\ c_in.width >= 10 /\ c_in.height >= 10) =>
    /\ InSafeArea(c_out.x, c_in.width)
    /\ InSafeArea(c_out.y, c_in.height)
    /\ c_in.x < 0 => c_out.x = ConvertAxis(0, c_in.width)
    /\ c_in.x > PropDen => c_out.x = ConvertAxis(PropDen, c_in.width)
    /\ c_in.y < 0 => c_out.y = ConvertAxis(0, c_in.height)
    /\ c_in.y > PropDen => c_out.y = ConvertAxis(PropDen, c_in.height)

\* an input left of the screen and below it, on a screen larger than the
\* margins: the point is on the left and bottom margins
C16_OutsideInputOnMargins ==
  /\ c_pc = "converted"
  /\ c_in.width > 10 /\ c_in.height > 10
  /\ c_in.x < 0 /\ c_in.y > PropDen
  /\ c_out = [x |-> safe_margin * Scale, y |-> (c_in.height - safe_margin) * Scale]

(***************************************************************************)
(* Claims about the action loop and the Gate (Spec).                       *)
(***************************************************************************)
HasPauseCall(calls) == \E i \in 1..Len(calls) : calls[i].name = "pause_task"

\* C1: while the loop is at the wait of an observed pause_task and the release
\* signal is not set, the loop stays there and issues no model call; this
\* holds at every pause_task of the task.
C1_NoModelCallBeforeRelease ==
  [][ (pc = "pt_wait" /\ ~pause_event) =>
        (pc' = "pt_wait" /\ model_calls' = model_calls) ]_vars

\* the loop blocks at a second pause_task of the same task, after a first one
\* was released
C1_SecondPauseBlocks ==
  /\ pc = "pt_wait" /\ ~pause_event
  /\ resumes >= 1 /\ model_calls = 2
  /\ HasPauseCall(parse_tool_calls(messages[3].content))

\* C2: every Gate wait returns on a release signal issued after its pause
\* began; no signal is left over to let a later pause through.
C2_PauseNeedsFreshRelease ==
  [][ (pc \in WaitPcs /\ pc' \notin WaitPcs) => fresh ]_vars

\* C3: run_task issues at most max_steps model calls, pauses and resumes
\* included.
C3_AtMostMaxStepsModelCalls == model_calls <= max_steps

\* the bound is met in a run that paused and resumed
C3_BoundMetAfterResume ==
  /\ max_steps >= 2 /\ model_calls = max_steps
  /\ resumes >= 1 /\ pc = "returned"

\* C4: a batch holding complete_task makes run_task return success with that
\* call's message, and no call listed after complete_task is executed.
C4_CompleteTaskEndsBatch ==
  \A i \in 1..Len(tool_calls) :
    tool_calls[i].name = "complete_task" =>
      /\ \A k \in 1..Len(invoked) : invoked[k] <= i
      /\ (pc = "returned" /\ loop_error = "") => result = CompletedResult(tool_calls[i])

\* the matched keyword of a response: the first pattern of the list, in list
\* order, that the response holds
RECURSIVE FirstPatternFrom(_, _)
FirstPatternFrom(text, n) ==
  IF n > Len(manual_intervention_patterns) THEN ""
  ELSE IF \E k \in 1..Len(text) : manual_intervention_patterns[n] \in Holds(text[k])
       THEN manual_intervention_patterns[n]
       ELSE FirstPatternFrom(text, n + 1)

MatchedKeyword(text) == FirstPatternFrom(text, 1)

\* C5 as stated: a response holding an intervention keyword and no pause_task
\* call, with or without other tool calls, is followed by a pause with the
\* matched keyword as reason before the next model call.
C5_KeywordAlwaysPauses ==
  (pc = "call_model" /\ step > 1 /\ MatchedKeyword(response_text) # ""
     /\ ~HasPauseCall(tool_calls))
    => gate_reason = MatchedKeyword(response_text)

\* C5 amended: a response holding an intervention keyword from which no tool
\* call is parsed is followed by a pause with the matched keyword as reason
\* before the next model call.
C5_KeywordWithoutCallsPauses ==
  (pc = "call_model" /\ step > 1 /\ MatchedKeyword(response_text) # ""
     /\ tool_calls = << >>)
    => (gate_reason = MatchedKeyword(response_text) /\ resumes >= 1)

\* the scenario of the spec: "please enter the verification code"
C5_CaptchaPaused ==
  /\ pc = "call_model" /\ step = 2
  /\ response_text = << "[qingshuru yanzhengma]" >>
  /\ gate_reason = "[yanzhengma]"

\* C6: execute_tool_calls gives one entry per call, in order: the result, an
\* error entry for a raising call (a call with an argument the handler does
\* not accept included), an unknown-tool entry for an unregistered name; every
\* registered call's handler is called, in list order, whatever came before.
C6_OneEntryPerCall ==
  pc = "scan_calls" =>
    /\ Len(tool_result) = Len(tool_calls)
    /\ \A i \in 1..Len(tool_calls) :
         /\ tool_result[i].name = tool_calls[i].name
         /\ tool_result[i].kind =
              (IF tool_calls[i].name \notin tools THEN "unknown"
               ELSE IF exec_outcomes[i] = "raise" THEN "error" ELSE "result")
         /\ (tool_calls[i].name \in tools /\ BadArguments(tool_calls[i]))
              => tool_result[i].kind = "error"
         /\ tool_calls[i].name \in tools <=> \E k \in 1..Len(invoked) : invoked[k] = i
    /\ \A k, l \in 1..Len(invoked) : k < l => invoked[k] < invoked[l]

\* a raising call, then an unknown one, then one that runs
C6_RaiseUnknownThenRun ==
  /\ pc = "scan_calls"
  /\ Len(tool_calls) = 3
  /\ tool_result[1].kind = "error"
  /\ tool_result[2].kind = "unknown"
  /\ tool_result[3].kind = "result"
  /\ invoked = << 1, 3 >>

\* C7: a capture failure at the start of a step pauses the loop; run_task does
\* not end with a failure outcome because of it.
C7_CaptureFailurePauses ==
  loop_error = "capture" => ~(pc = "returned" /\ result.kind = "failed")

AfterRunPcs == {"returned", "w_get", "w_break", "w_exit"}

C9_FailurePublishedAsFailed ==
  loop_error # "" =>
    /\ \A k \in 1..Len(status_queue) :
         status_queue[k].type = "task_complete" => status_queue[k].message # "[wancheng]"
    /\ pc \in AfterRunPcs => result.kind = "failed"

\* the kinds of user message that carry a screenshot
ShotKinds == {"task", "screen", "resume"}

\* C17: when the model is called, the last entry of the transcript is a user
\* message with a screenshot taken after the last executed tool call and after
\* the last resume, and every resume since the last call was followed by a
\* resume message with a fresh screenshot.
C17_ModelSeesCurrentScreen ==
  pc = "call_model" =>
    /\ messages[Len(messages)].role = "user"
    /\ messages[Len(messages)].kind \in ShotKinds
    /\ ~screen_changed
    /\ ~resume_pending

\* the entries appended to the transcript after the last assistant reply
RECURSIVE SinceLastReply(_)
SinceLastReply(msgs) ==
  IF msgs = << >> \/ msgs[Len(msgs)].role = "assistant" THEN << >>
  ELSE Append(SinceLastReply(SubSeq(msgs, 1, Len(msgs) - 1)), msgs[Len(msgs)])

\* C18: when the model is called after a step whose batch was executed, the
\* transcript holds, after that step's reply, exactly one user message with
\* the lead-in of tool results, and it carries the results of the batch; a
\* batch with pause_task is no exception.
C18_OneToolResultMessage ==
  (pc = "call_model" /\ exec_outcomes # << >>) =>
    LET since == SinceLastReply(messages)
        at == { k \in 1..Len(since) : since[k].kind = "tool_result" }
    IN /\ Cardinality(at) = 1
       /\ \A k \in at :
            /\ since[k].role = "user"
            /\ since[k].content = execute_tool_calls(tool_calls, exec_outcomes).results

\* run_task left the while loop because step < max_steps no longer held: it
\* returned without an error, without complete_task and without the note of
\* the no-tool-call branch
EndedAtMaxSteps ==
  /\ pc \in AfterRunPcs
  /\ loop_error = "" /\ result.kind \notin {"none", "completed"}
  /\ step = max_steps
  /\ messages[Len(messages)].kind # "done_note"

\* C19: a run ended by the step bound returns an outcome of its own, one that
\* is neither a successful completion nor what the no-tool-call heuristic
\* returns (the last reply of the model).
C19_MaxStepsOutcomeIsDistinct ==
  EndedAtMaxSteps => result.kind \notin {"completed", "last_reply", "no_reply"}

\* C20: a call of the batch whose name is on the bare-form allow-list is
\* never answered with the unknown-tool entry.
C20_AllowListedNamesHaveHandlers ==
  pc = "scan_calls" =>
    \A i \in 1..Len(tool_calls) :
      tool_calls[i].name \in BareNames => tool_result[i].kind # "unknown"

\* the last response of this run was a keyword-detected intervention: no tool
\* call parsed, and a pattern found
KeywordDetected ==
  /\ model_calls >= 1
  /\ tool_calls = << >>
  /\ detect_manual_intervention_required(response_text) # ""

\* C21: for one keyword-detected intervention the loop blocks on the Gate
\* once: it begins no second wait for it, and it reaches the next model call
\* after one wait, with the resume message as the last entry of the
\* transcript.
C21_KeywordPauseBlocksOnce ==
  /\ (KeywordDetected /\ pc \notin AfterRunPcs) => blocks <= 1
  /\ (KeywordDetected /\ pc = "call_model") =>
       (blocks = 1 /\ messages[Len(messages)].kind = "resume")


(***************************************************************************)
(* Claims about the task worker (SpecWorkers).                             *)
(***************************************************************************)
\* the threads started and not ended, and those inside run_task
ActiveThreads == { t \in Threads : t_pc[t] # "exit" }

InRunTask == { t \in Threads : t_pc[t] = "run" }

\* C22: however many times and whenever execute_task is called, at most one
\* task_worker thread is active and at most one run_task is in progress.
C22_OneWorkerOneRun ==
  /\ Cardinality(ActiveThreads) <= 1
  /\ Cardinality(InRunTask) <= 1


(***************************************************************************)
(* Claims about the pause state (Spec).                                    *)
(***************************************************************************)
\* the statements between the return of a wait and the end of its resume
ClearPcs == {"pt_clear", "kw_clear", "gen_clear", "hmip_clear"}

\* C23: is_paused is true wherever the loop is blocked at a Gate wait,
\* whichever trigger began the pause, and nowhere else; once a wait has
\* returned and the loop goes on, is_paused is false and pause_reason is
\* empty.
C23_PauseStateMirrorsGate ==
  /\ pc \in WaitPcs => is_paused
  /\ is_paused => pc \in WaitPcs \cup ClearPcs
  /\ pc \notin WaitPcs \cup ClearPcs => (~is_paused /\ pause_reason = "")


(***************************************************************************)
(* Claims about the end of the loop (Spec).                                *)
(***************************************************************************)
\* the last response of this run gave no tool call, holds no intervention
\* pattern and no "needs the user" phrase
QuietResponse ==
  /\ response_text # << >>
  /\ tool_calls = << >>
  /\ detect_manual_intervention_required(response_text) = ""
  /\ ~need_user_input(response_text)

\* C24: after such a response the loop ends: no model call, no tool execution
\* and no screenshot follows (the transcript gains the completion note and
\* nothing else), and run_task returns the text of that response.
C24_QuietResponseEndsRun ==
  /\ [](QuietResponse =>
          /\ pc \in {"no_calls", "finish"} \cup AfterRunPcs
          /\ pc \in AfterRunPcs =>
               (result.kind = "last_reply" /\ result.message = response_text))
  /\ [][ QuietResponse =>
           /\ model_calls' = model_calls
           /\ invoked' = invoked /\ exec_outcomes' = exec_outcomes
           /\ \/ messages' = messages
              \/ (pc = "no_calls" /\ messages' = Append(messages, Msg("user", "done_note", << >>))) ]_vars

\* the first response of a run allowed two steps is such a response, and
\* run_task has returned it
C24_EndedOnFirstReply ==
  /\ pc = "returned" /\ QuietResponse
  /\ step = 1 /\ max_steps >= 2 /\ model_calls = 1
  /\ result.kind = "last_reply" /\ result.message = << "[hao]" >>


(***************************************************************************)
(* Claims about the adapter adjustment (SpecAdjust).                       *)
(***************************************************************************)
\* the rules whose type or target is the target type
MatchingRules(rules, target_type) ==
  { i \in 1..Len(rules) : rules[i].type = target_type \/ rules[i].target = target_type }

\* C25: apply_adjustment returns (x, y) as given when the adapter id is not
\* given, is not loaded, or no rule matches the target type; otherwise the
\* point moved by the offset of the first matching rule of the list and
\* clamped to [0, 1] on both axes, whatever the later rules are.
C25_FirstMatchingRuleApplies ==
  c_pc = "adjusted" =>
    LET m == MatchingRules(c_in.rules, c_in.target_type) IN
      IF c_in.adapter_id # "app" \/ m = {}
      THEN c_out = [x |-> c_in.x, y |-> c_in.y]
      ELSE LET f == CHOOSE i \in m : \A j \in m : i <= j
               dx == c_in.rules[f].adjustment.x
               dy == c_in.rules[f].adjustment.y
           IN c_out = [x |-> Max(0, Min(PropDen, c_in.x + dx)),
                       y |-> Max(0, Min(PropDen, c_in.y + dy))]

\* two rules match with different offsets, the first keyed by type and the
\* second by target; the first one's offset is applied and the y axis is
\* clamped at 0
C25_TwoRulesMatchFirstWins ==
  /\ c_pc = "adjusted"
  /\ c_in.adapter_id = "app" /\ c_in.target_type = "click"
  /\ Len(c_in.rules) = 2
  /\ c_in.rules[1].type = "click" /\ c_in.rules[2].target = "click"
  /\ c_in.x = 1 /\ c_in.y = 0
  /\ c_out = [x |-> 2, y |-> 0]


(***************************************************************************)
(* Claims about the moving path (SpecMove).                                *)
(***************************************************************************)
\* C26: the intermediate point of the two-phase move is the point 80% of the
\* way from the pointer's position to the target, on both axes:
\* current + 0.8 x (target - current), here in fifths of a pixel.
C26_IntermediateIsEightyPercent ==
  \A k \in 1..Len(h_events) :
    h_events[k].kind = "near" =>
      /\ h_events[k].x = 5 * h_call.current.x + 4 * (h_call.actual.x - h_call.current.x)
      /\ h_events[k].y = 5 * h_call.current.y + 4 * (h_call.actual.y - h_call.current.y)

\* the corrections among the moves, in order
Corrections == SelectSeq(h_events, LAMBDA m : m.kind = "correct")

\* C27: when the error after the final move exceeds 2 pixels on an axis, each
\* correction moves the pointer by at most 2 pixels on each axis: the first
\* from where the pointer was found, each later one from the correction before
\* it.
C27_CorrectionStepAtMostTwoPixels ==
  h_pc = "settled" =>
    \A k \in 1..Len(Corrections) :
      LET m == Corrections[k]
          fromX == IF k = 1 THEN h_call.final.x * m.den ELSE Corrections[k - 1].x
          fromY == IF k = 1 THEN h_call.final.y * m.den ELSE Corrections[k - 1].y
      IN /\ Abs(m.x - fromX) <= 2 * m.den
         /\ Abs(m.y - fromY) <= 2 * m.den


(***************************************************************************)
(* Claims about the conversion from the scaled space (SpecRelative).       *)
(***************************************************************************)
\* the fraction q is within 1 pixel of the pixel p
WithinOnePixel(q, p) == Abs(q.num - p * q.den) <= q.den

RoundTripHolds ==
  /\ WithinOnePixel(c_out.x, c_in.X)
  /\ WithinOnePixel(c_out.y, c_in.Y)

\* the scaled size of a screenshot is set
ScaledIsSet == c_in.geometry.scaled_width >= 1 /\ c_in.geometry.scaled_height >= 1

\* C28 as stated: for a geometry whose scaled dimensions are no larger than
\* the original ones (and set) and every pixel (X, Y) of the screen, the
\* conversion of the pixel's scaled-space coordinate is within 1 pixel of
\* (X, Y) on both axes.
C28_RoundTripOnWholeScreen ==
  (c_pc = "relative_converted" /\ ScaledIsSet) => RoundTripHolds

\* C28 amended: for a geometry whose scaled dimensions are at least 1 and no
\* larger than the original ones, and every pixel (X, Y) at least safe_margin
\* pixels from each edge of the screen, the conversion of the pixel's
\* scaled-space coordinate is within 1 pixel of (X, Y) on both axes.
C28_RoundTripInsideMargins ==
  ( /\ c_pc = "relative_converted"
    /\ ScaledIsSet
    /\ safe_margin <= c_in.X /\ c_in.X <= c_in.geometry.width - safe_margin
    /\ safe_margin <= c_in.Y /\ c_in.Y <= c_in.geometry.height - safe_margin )
    => RoundTripHolds

\* a pixel inside the margins, on a screenshot scaled to half the width and to
\* one pixel less than the height: the conversion gives the pixel back
C28_ScaledPixelRecovered ==
  /\ c_pc = "relative_converted"
  /\ c_in.geometry.scaled_width = c_in.geometry.width \div 2
  /\ c_in.geometry.scaled_height = c_in.geometry.height - 1
  /\ c_in.X = safe_margin + 1 /\ c_in.Y = c_in.geometry.height - safe_margin
  /\ c_out.x.num = c_in.X * c_out.x.den
  /\ c_out.y.num = c_in.Y * c_out.y.den


(***************************************************************************)
(* Claims about termination (SpecFair).                                    *)
(***************************************************************************)
\* C29: when every Gate wait is released and every call of the loop returns
\* or raises, run_task returns, whatever max_steps and the responses are.
C29_RunTaskReturns == (pc = "run_start") ~> (pc = "returned")

\* run_task has returned without an error after two pauses
C29_ReturnedAfterTwoPauses ==
  /\ pc = "returned" /\ loop_error = ""
  /\ resumes >= 2 /\ step = max_steps


(***************************************************************************)
(* Claims about pause_task inside a batch (Spec).                          *)
(***************************************************************************)
\* the pause of call i of the batch has not been released: the scan has not
\* passed the call, or the loop is at its wait
PauseNotReleased(i) ==
  \/ (pc = "scan_calls" /\ scan_i <= i)
  \/ (pc = "pt_wait" /\ scan_i = i)

\* C30: while the pause of a pause_task call of the batch has not been
\* released, no call listed after it in the batch has had its handler called.
C30_NothingRunsPastUnreleasedPause ==
  \A i \in 1..Len(tool_calls) :
    (tool_calls[i].name = "pause_task" /\ PauseNotReleased(i)) =>
      \A k \in 1..Len(invoked) : invoked[k] <= i


(***************************************************************************)
(* C31: a release is never lost.  Once the task_paused notification of a   *)
(* pause is published, a continue_task that sets the event, whether the    *)
(* loop thread is already blocked in wait() or has yet to reach it, makes  *)
(* the loop leave that wait: the event stays set until the wait returns.   *)
(* Checked with the worker thread alone kept running (SpecLoopFair).       *)
(***************************************************************************)
Released == pc \in WaitPcs /\ fresh

C31_ReleaseNeverLost == Released ~> (pc \notin WaitPcs)

\* the wait of a pause has returned on a release that came before the
\* pause frame of that pause was shown
C31_ResumedBeforeFrameShown ==
  /\ pc = "pt_clear"
  /\ fresh
  /\ after_show > 0
  /\ resumes = 1

(***************************************************************************)
(* C32: every task put on the task queue by execute_task is taken and run, *)
(* also when the submission meets a worker thread that is about to exit on *)
(* an empty queue: no task is in the queue while no worker thread is       *)
(* alive to take it.                                                       *)
(***************************************************************************)
C32_NoTaskLeftWithoutWorker == t_queue # << >> => ActiveThreads # {}

(***************************************************************************)
(* C33: every position handed to moveTo during a pointer action, the       *)
(* intermediate point of the two-phase move and every micro-correction     *)
(* included, lies in the safe area of the screen: 5 <= X <= width - 5 and  *)
(* 5 <= Y <= height - 5.                                                   *)
(***************************************************************************)
CommandedInSafeArea(m) ==
  /\ safe_margin * m.den <= m.x /\ m.x <= (MoveScreen.width - safe_margin) * m.den
  /\ safe_margin * m.den <= m.y /\ m.y <= (MoveScreen.height - safe_margin) * m.den

C33_CommandedMovesInSafeArea ==
  \A k \in 1..Len(h_events) : CommandedInSafeArea(h_events[k])

(***************************************************************************)
(* C34: for a task run by the task worker exactly one task_complete event  *)
(* is put on the status queue, none while the task is still running, and   *)
(* it is put after every task_paused event of the task: nothing is put     *)
(* for the task after its task_complete.                                   *)
(***************************************************************************)
Completions == { k \in 1..Len(published) : published[k].type = "task_complete" }

\* the worker has taken the task and is through with it
TaskOver == pc \in {"w_get", "w_break", "w_exit"} /\ task_queue = << >>

C34_OneCompletionAfterPauses ==
  /\ Cardinality(Completions) <= 1
  /\ TaskOver => Cardinality(Completions) = 1
  /\ ~TaskOver => Completions = {}
  /\ \A k \in Completions : k = Len(published)

\* a run that paused and then ended on a complete_task call, which run_task
\* reports through the callback too: one pause and one completion are put
C34_PausedThenCompletedByCall ==
  /\ TaskOver
  /\ result.kind = "completed"
  /\ Len(published) = 2
  /\ published[1].type = "task_paused"
  /\ published[2] = CompleteEvent("[wancheng]")

=============================================================================
